---- MODULE Spec2Model ----
(***************************************************************************)
(* Verification model of the Xelis node: the chain validator used by chain *)
(* sync (xelis_daemon/src/p2p/chain_validator.rs), the chain sync loop     *)
(* that drives it, and the per-peer object request table                  *)
(* (src/p2p/peer.rs).                                                      *)
(***************************************************************************)
EXTENDS Integers, Sequences, FiniteSets, TLC

\* ------------------------------------------------------------------ bounds

\* Block hashes are 0..MaxHash; hash 0 is the genesis block.
MaxHash == 3

\* Blocks the node commits outside any sync.
MaxStored == 2

\* The proof-of-work hash space, scaled down from 2^256 - 1.
MaxPowHash == 300000

\* The longest chain response a peer sends in one sync.
MaxSyncLen == 5
\* tasks calling request_blocking_object on the peer
MaxTasks == 2
\* distinct ObjectRequest keys
MaxKeys == 2
\* calls of request_blocking_object in a behaviour
MaxCalls == 2
\* the highest block height a peer advertises
MaxHeight == 3
\* Ping packets processed in a behaviour
MaxPings == 2
\* calls of kalman_filter in a behaviour
MaxFilterCalls == 2
\* blocks added on the genesis block, each with any solve time
MaxBlocks == 4
\* blocks added on the genesis block at one cadence
MaxSurgeBlocks == 600
\* blocks minted in a behaviour of commits and rewinds
MaxMinted == 10
\* the largest count a rewind is asked for
MaxRewind == 9

\* Blocks over genesis of a chain whose blocks carry transactions.
MaxLedgerBlocks == 2

\* Transactions the blocks of such a chain carry.
MaxTx == 2

\* The highest topoheight a serialized value names.
MaxTopoheight == 2

\* The longest body of a packet whose layout is outside the model.
MaxBody == 3

\* ------------------------------------------------------- program constants

\* "fail count: if greater than 20, we should close this connection"
MAX_FAIL_COUNT == 20

TIPS_LIMIT == 3

BLOCK_TIME == 15 * 1000

MINIMUM_DIFFICULTY == BLOCK_TIME * 10

GENESIS_BLOCK_DIFFICULTY == 1

STABLE_HEIGHT_LIMIT == 8

\* A rewind limit that reaches below the stable height.
MAX_BLOCK_REWIND_loose == STABLE_HEIGHT_LIMIT + 1

\* A limit that leaves out the - 1.
MAX_BLOCK_REWIND_whole == STABLE_HEIGHT_LIMIT

MAX_BLOCK_REWIND == STABLE_HEIGHT_LIMIT - 1

\* -------------------------------------------------------------- data model

Hashes == 0..MaxHash

GenesisHash == 0

\* Proof-of-work hashes a header may carry: 1 satisfies MINIMUM_DIFFICULTY in
\* the scaled hash space, 3 does not.
PowHashes == {1, 3}

RECURSIVE SeqsUpTo(_, _)
SeqsUpTo(S, n) ==
    IF n = 0 THEN {<<>>}
    ELSE LET shorter == SeqsUpTo(S, n - 1)
         IN  shorter \cup {Append(s, x) : s \in {t \in shorter : Len(t) = n - 1}, x \in S}

\* Tips lists a peer may send: up to one parent more than TIPS_LIMIT.
TipSeqs == SeqsUpTo(Hashes, TIPS_LIMIT + 1)

\* BlockHeader, reduced to the fields the validator and the PoW check read.
Headers == [tips : TipSeqs, height : {1}, pow : PowHashes]

NoHeader == [tips |-> <<>>, height |-> 0, pow |-> 0]

GenesisHeader == [tips |-> <<>>, height |-> 0, pow |-> 1]

\* The has_block call of one insert_block that fails with a storage error
\* (0: none; 1: the lookup of the block hash; 2: the first lookup of a tip).
IoFaults == {0, 1, 2}

Range(s) == {s[i] : i \in 1..Len(s)}

Max(a, b) == IF a >= b THEN a ELSE b

\* ------------------------------------------------------------------- state

VARIABLES
    storage,       \* the main chain store (Storage)
    validator,     \* ChainValidator { blocks, order }
    call,          \* the last ChainValidator call and what it returned
    sync,          \* the chain sync in progress with the peer
    fail_count,    \* Peer::fail_count (AtomicU8)
    peer_list,     \* whether the peer is in the peer list
    connection,    \* whether the peer's connection is open
    objects_requested, \* Peer::objects_requested: ObjectRequest -> Sender
    objects_lock,  \* the task holding the Mutex of objects_requested, 0 if free
    task,          \* the callers of request_blocking_object
    chan,          \* the oneshot channel of each call
    ncalls,        \* calls of request_blocking_object made so far
    sent,          \* ObjectRequest packets handed to the connection
    ret,           \* the last return of request_blocking_object
    handler,       \* the task handling the peer's object responses
    peer_tip,      \* the peer's advertised block_top_hash and block_height
    last_ping,     \* the Ping packet processed last
    tip_origin,    \* for each field of peer_tip, the announcement that wrote it
    kalman,        \* the last call of kalman_filter
    top_block,     \* timestamp, difficulty and covariance of the chain's top block
    minted,        \* the highest hash of the blocks mined so far
    was_stable,    \* the topoheight each block had when it became Stable
    ledger,        \* the account side of the store: balances, nonces, supply
    chain_call,    \* the last operation of the chain mutator task
    wire,          \* the value serialized last, its bytes and their read
    clients,       \* RpcServer::clients: the subscriptions of each websocket client
    rpc            \* the last call on the RpcServer and what it returned and sent

valVars == <<storage, validator, call>>

syncVars == <<sync, fail_count, peer_list, connection>>

reqVars == <<objects_requested, objects_lock, task, chan, ncalls, sent, ret, handler>>

pingVars == <<peer_tip, last_ping, tip_origin>>

\* The state outside the validator, the sync and the object requests.
diffVars == <<kalman, top_block>>

chainVars == <<minted, was_stable, ledger, chain_call>>

codecVars == <<wire>>

rpcVars == <<clients, rpc>>

extVars == <<pingVars, diffVars, chainVars, codecVars, rpcVars>>

vars == <<storage, validator, call, sync, fail_count, peer_list, connection,
          objects_requested, objects_lock, task, chan, ncalls, sent, ret, handler,
          peer_tip, last_ping, tip_origin, kalman, top_block, minted, was_stable, ledger,
          chain_call, wire, clients, rpc>>

\* ----------------------------------------------------------- main storage

\* Storage after loading the genesis block.
GenesisStorage ==
    [ blocks |-> [h \in {GenesisHash} |->
                    [header |-> GenesisHeader,
                     difficulty |-> GENESIS_BLOCK_DIFFICULTY,
                     cumulative_difficulty |-> GENESIS_BLOCK_DIFFICULTY]],
      tips |-> {GenesisHash},
      top_height |-> 0,
      top_topoheight |-> 0,
      topo |-> <<GenesisHash>> ]

\* Storage::has_block
has_block(s, hash) == hash \in DOMAIN s.blocks

\* ------------------------------------------------------ difficulty provider

\* impl DifficultyProvider for ChainValidator: every getter goes through
\* get_data, which knows only the blocks held by the validator itself.
ValidatorProvider(v) == [known |-> DOMAIN v.blocks, data |-> v.blocks]

\* The main store as DifficultyProvider (Storage: DifficultyProvider).
StorageProvider(s) == [known |-> DOMAIN s.blocks, data |-> s.blocks]

\* ChainValidator::get_data / the provider getters: BlockNotFound for a hash
\* the provider does not hold.
get_data(p, hash) ==
    IF hash \in p.known
    THEN [ok |-> TRUE, data |-> p.data[hash]]
    ELSE [ok |-> FALSE, data |-> [header |-> NoHeader, difficulty |-> 0,
                                  cumulative_difficulty |-> 0]]

\* The tip with the highest cumulative difficulty, ties broken by lower hash.
find_best_tip(p, tips) ==
    CHOOSE b \in Range(tips) :
        \A t \in Range(tips) :
            \/ p.data[b].cumulative_difficulty > p.data[t].cumulative_difficulty
            \/ /\ p.data[b].cumulative_difficulty = p.data[t].cumulative_difficulty
               /\ b <= t

\* The difficulty expected of a block built on best tip b: never below
\* MINIMUM_DIFFICULTY (difficulty.rs:66-68).
expected_difficulty(p, b) == Max(MINIMUM_DIFFICULTY, p.data[b].difficulty)

\* pow_hash * difficulty <= the largest hash value.
check_difficulty(pow_hash, difficulty) == pow_hash * difficulty <= MaxPowHash

\* Blockchain::verify_proof_of_work(provider, pow_hash, tips): reads the tips'
\* data from the provider it is given, takes the best tip's expected
\* difficulty and checks the PoW hash against it.
verify_proof_of_work(p, pow_hash, tips) ==
    IF \E i \in 1..Len(tips) : ~get_data(p, tips[i]).ok
    THEN [ok |-> FALSE, err |-> "BlockNotFound", difficulty |-> 0]
    ELSE LET d == IF tips = << >> THEN GENESIS_BLOCK_DIFFICULTY
                  ELSE expected_difficulty(p, find_best_tip(p, tips))
         IN  IF check_difficulty(pow_hash, d)
             THEN [ok |-> TRUE, err |-> "", difficulty |-> d]
             ELSE [ok |-> FALSE, err |-> "InvalidDifficulty", difficulty |-> d]

\* --------------------------------------------------------- chain validator

\* ChainValidator::new
NewValidator == [blocks |-> << >>, order |-> << >>]

\* check_tips without the unique_tips test.
RECURSIVE check_tips_no_unique(_, _, _, _, _, _, _)
check_tips_no_unique(v, s, tips, i, seen, n, io) ==
    IF i > Len(tips) THEN "Ok"
    ELSE LET tip == tips[i]
             inValidator == tip \in DOMAIN v.blocks
             n2 == IF inValidator THEN n ELSE n + 1
         IN  IF ~inValidator /\ n2 = io THEN "StorageError"
             ELSE IF ~inValidator /\ ~(tip \in DOMAIN s.blocks) THEN "InvalidTips"
             ELSE check_tips_no_unique(v, s, tips, i + 1, seen \cup {tip}, n2, io)

\* The loop over the tips of insert_block (lines 48-63): i is the tip being
\* looked at, seen the unique_tips set, n the number of has_block calls made
\* so far by this insert_block, io the has_block call that fails.
RECURSIVE check_tips(_, _, _, _, _, _, _)
check_tips(v, s, tips, i, seen, n, io) ==
    IF i > Len(tips) THEN "Ok"
    ELSE LET tip == tips[i]
             inValidator == tip \in DOMAIN v.blocks
             n2 == IF inValidator THEN n ELSE n + 1
         IN  IF ~inValidator /\ n2 = io THEN "StorageError"
             ELSE IF ~inValidator /\ ~has_block(s, tip) THEN "InvalidTips"
             ELSE IF tip \in seen THEN "InvalidTips"
             ELSE check_tips(v, s, tips, i + 1, seen \cup {tip}, n2, io)

\* insert_block without the lookup of the block hash in the main store.
insert_block_no_store_check(v, s, hash, header, io) ==
    LET tips == header.tips
        tips_count == Len(tips)
        unchanged(res) == [res |-> res, blocks |-> v.blocks, order |-> v.order]
    IN  IF hash \in DOMAIN v.blocks THEN unchanged("AlreadyInChain")
        ELSE IF tips_count = 0 \/ tips_count > TIPS_LIMIT THEN unchanged("InvalidTips")
        ELSE LET t == check_tips(v, s, tips, 1, {}, 1, io)
             IN  IF t # "Ok" THEN unchanged(t)
                 ELSE LET pow == verify_proof_of_work(ValidatorProvider(v), header.pow, tips)
                      IN  IF ~pow.ok THEN unchanged(pow.err)
                          ELSE [res |-> "Ok",
                                blocks |-> (hash :> [header |-> header,
                                                     difficulty |-> pow.difficulty,
                                                     cumulative_difficulty |-> 0])
                                           @@ v.blocks,
                                order |-> Append(v.order, hash)]

\* insert_block that puts the block into the map and the order list before
\* the proof of work is verified.
insert_block_insert_first(v, s, hash, header, io) ==
    LET tips == header.tips
        tips_count == Len(tips)
        unchanged(res) == [res |-> res, blocks |-> v.blocks, order |-> v.order]
    IN  IF hash \in DOMAIN v.blocks THEN unchanged("AlreadyInChain")
        ELSE IF io = 1 THEN unchanged("StorageError")
        ELSE IF has_block(s, hash) THEN unchanged("AlreadyInChain")
        ELSE IF tips_count = 0 \/ tips_count > TIPS_LIMIT THEN unchanged("InvalidTips")
        ELSE LET t == check_tips(v, s, tips, 1, {}, 1, io)
             IN  IF t # "Ok" THEN unchanged(t)
                 ELSE LET pow == verify_proof_of_work(ValidatorProvider(v), header.pow, tips)
                      IN  [res |-> IF pow.ok THEN "Ok" ELSE pow.err,
                           blocks |-> (hash :> [header |-> header,
                                                difficulty |-> pow.difficulty,
                                                cumulative_difficulty |-> 0])
                                      @@ v.blocks,
                           order |-> Append(v.order, hash)]

\* ChainValidator::insert_block as a function of the validator, the store,
\* the call's arguments and the storage fault: the result and the validator
\* after the call.
insert_block(v, s, hash, header, io) ==
    LET tips == header.tips
        tips_count == Len(tips)
        unchanged(res) == [res |-> res, blocks |-> v.blocks, order |-> v.order]
    IN  IF hash \in DOMAIN v.blocks THEN unchanged("AlreadyInChain")
        ELSE IF io = 1 THEN unchanged("StorageError")
        ELSE IF has_block(s, hash) THEN unchanged("AlreadyInChain")
        ELSE IF tips_count = 0 \/ tips_count > TIPS_LIMIT THEN unchanged("InvalidTips")
        ELSE LET t == check_tips(v, s, tips, 1, {}, 1, io)
             IN  IF t # "Ok" THEN unchanged(t)
                 ELSE LET pow == verify_proof_of_work(ValidatorProvider(v), header.pow, tips)
                      IN  IF ~pow.ok THEN unchanged(pow.err)
                          ELSE [res |-> "Ok",
                                blocks |-> (hash :> [header |-> header,
                                                     difficulty |-> pow.difficulty,
                                                     cumulative_difficulty |-> 0])
                                           @@ v.blocks,
                                order |-> Append(v.order, hash)]

\* ChainValidator::get_order: the order list is taken, an empty one is left.
get_order(v) == [ret |-> v.order, blocks |-> v.blocks, order |-> << >>]

\* ChainValidator::consume_block_header: the block leaves the map.
consume_block_header(v, hash) ==
    IF hash \in DOMAIN v.blocks
    THEN [res |-> "Ok", header |-> v.blocks[hash].header,
          blocks |-> [h \in DOMAIN v.blocks \ {hash} |-> v.blocks[h]],
          order |-> v.order]
    ELSE [res |-> "BlockNotFound", header |-> NoHeader,
          blocks |-> v.blocks, order |-> v.order]

\* ------------------------------------------- validator operations (actions)

NoCall == [op |-> "none", hash |-> 0, header |-> NoHeader, io |-> 0,
           res |-> "", ret |-> << >>]

\* insert_block that also writes the header into the main store.
InsertBlock_into_store(hash, header, io) ==
    LET r == insert_block(validator, storage, hash, header, io)
    IN  /\ validator' = [blocks |-> r.blocks, order |-> r.order]
        /\ call' = [op |-> "insert_block", hash |-> hash, header |-> header,
                    io |-> io, res |-> r.res, ret |-> << >>]
        /\ storage' = IF has_block(storage, hash) THEN storage
                      ELSE [storage EXCEPT !.blocks =
                                (hash :> [header |-> header, difficulty |-> 0,
                                          cumulative_difficulty |-> 0]) @@ @]
        /\ UNCHANGED <<syncVars, reqVars, extVars>>

InsertBlock(hash, header, io) ==
    LET r == insert_block(validator, storage, hash, header, io)
    IN  /\ validator' = [blocks |-> r.blocks, order |-> r.order]
        /\ call' = [op |-> "insert_block", hash |-> hash, header |-> header,
                    io |-> io, res |-> r.res, ret |-> << >>]
        /\ UNCHANGED <<storage, syncVars, reqVars, extVars>>

GetOrder ==
    LET r == get_order(validator)
    IN  /\ validator' = [blocks |-> r.blocks, order |-> r.order]
        /\ call' = [op |-> "get_order", hash |-> 0, header |-> NoHeader,
                    io |-> 0, res |-> "Ok", ret |-> r.ret]
        /\ UNCHANGED <<storage, syncVars, reqVars, extVars>>

ConsumeBlockHeader(hash) ==
    LET r == consume_block_header(validator, hash)
    IN  /\ validator' = [blocks |-> r.blocks, order |-> r.order]
        /\ call' = [op |-> "consume_block_header", hash |-> hash,
                    header |-> r.header, io |-> 0, res |-> r.res, ret |-> << >>]
        /\ UNCHANGED <<storage, syncVars, reqVars, extVars>>


\* ------------------------------------------------------------------- peer

\* increment_fail_count that loses the increment.
increment_fail_count_lost(n) == n

\* Peer::increment_fail_count: fetch_add(1) on an AtomicU8.
increment_fail_count(n) == (n + 1) % 256

\* Peer::close: the peer leaves the peer list and its connection is closed.
\* close that leaves the peer in the peer list.
close_keeps_peer == /\ peer_list' = peer_list
                    /\ connection' = FALSE

close == /\ peer_list' = FALSE
         /\ connection' = FALSE

\* --------------------------------------------------------------- chain sync

\* BlockDAG engine commit of one block whose tips are stored: the PoW is
\* verified against the store, the block is written with its difficulty and
\* cumulative difficulty, and tips, top_height and top_topoheight follow.
commit_block(s, hash, header) ==
    IF has_block(s, hash) THEN [ok |-> FALSE, storage |-> s]
    ELSE IF Len(header.tips) = 0 \/ Len(header.tips) > TIPS_LIMIT
    THEN [ok |-> FALSE, storage |-> s]
    ELSE IF Cardinality(Range(header.tips)) # Len(header.tips)
    THEN [ok |-> FALSE, storage |-> s]
    ELSE IF \E i \in 1..Len(header.tips) : ~has_block(s, header.tips[i])
    THEN [ok |-> FALSE, storage |-> s]
    ELSE LET pow == verify_proof_of_work(StorageProvider(s), header.pow, header.tips)
             best == find_best_tip(StorageProvider(s), header.tips)
         IN  IF ~pow.ok THEN [ok |-> FALSE, storage |-> s]
             ELSE [ok |-> TRUE,
                   storage |->
                     [ blocks |-> (hash :> [header |-> header,
                                            difficulty |-> pow.difficulty,
                                            cumulative_difficulty |->
                                                s.blocks[best].cumulative_difficulty
                                                    + pow.difficulty])
                                  @@ s.blocks,
                       tips |-> (s.tips \ Range(header.tips)) \cup {hash},
                       top_height |-> Max(s.top_height, header.height),
                       top_topoheight |-> s.top_topoheight + 1,
                       topo |-> Append(s.topo, hash) ]]

\* Step 5 of chain sync: the blocks of get_order are taken out of the
\* validator with consume_block_header and committed one after the other;
\* the first failure stops it.
RECURSIVE commit_in_order(_, _, _)
commit_in_order(s, v, order) ==
    IF order = << >> THEN [ok |-> TRUE, storage |-> s, validator |-> v]
    ELSE LET c == consume_block_header(v, Head(order))
             v2 == [blocks |-> c.blocks, order |-> c.order]
         IN  IF c.res # "Ok" THEN [ok |-> FALSE, storage |-> s, validator |-> v2]
             ELSE LET r == commit_block(s, Head(order), c.header)
                  IN  IF ~r.ok THEN [ok |-> FALSE, storage |-> r.storage, validator |-> v2]
                      ELSE commit_in_order(r.storage, v2, Tail(order))

\* The chain a peer at height n ahead of genesis sends: header i has hash i,
\* height i and the single tip i - 1; pow gives each header's PoW hash.
LinearChain(n, pow) ==
    [i \in 1..n |-> [hash |-> i,
                     header |-> [tips |-> <<i - 1>>, height |-> i, pow |-> pow[i]]]]

ChainResponses ==
    UNION {{LinearChain(n, pow) : pow \in [1..n -> PowHashes]} : n \in 0..MaxSyncLen}

NoSync == [pc |-> "idle", response |-> << >>, todo |-> << >>, k |-> 0,
           res |-> "", base |-> GenesisStorage, fail_before |-> 0]

\* The peer is charged a fail; above MAX_FAIL_COUNT it is dropped.
ChargePeer ==
    /\ fail_count' = increment_fail_count(fail_count)
    /\ IF fail_count' > MAX_FAIL_COUNT
       THEN close
       ELSE UNCHANGED <<peer_list, connection>>

\* The peer's answer to RequestChain arrives: a fresh validator is created
\* for the headers it carries.
ChainResponse(response) ==
    /\ sync.pc = "idle"
    /\ peer_list
    /\ sync' = [pc |-> "validating", response |-> response, todo |-> response,
                k |-> 0, res |-> "", base |-> storage, fail_before |-> fail_count]
    /\ validator' = NewValidator
    /\ call' = NoCall
    /\ UNCHANGED <<storage, fail_count, peer_list, connection, reqVars, extVars>>

\* The next header of the response is fed into the validator. A failure
\* aborts the sync: the validator is dropped and the peer charged.
SyncInsert(io) ==
    /\ sync.pc = "validating"
    /\ sync.todo # << >>
    /\ LET b == Head(sync.todo)
           r == insert_block(validator, storage, b.hash, b.header, io)
       IN  /\ call' = [op |-> "insert_block", hash |-> b.hash, header |-> b.header,
                       io |-> io, res |-> r.res, ret |-> << >>]
           /\ IF r.res = "Ok"
              THEN /\ validator' = [blocks |-> r.blocks, order |-> r.order]
                   /\ sync' = [sync EXCEPT !.todo = Tail(@), !.k = @ + 1]
                   /\ UNCHANGED <<fail_count, peer_list, connection>>
              ELSE /\ validator' = NewValidator
                   /\ sync' = [sync EXCEPT !.pc = "idle", !.todo = << >>,
                                           !.k = @ + 1, !.res = r.res]
                   /\ ChargePeer
    /\ UNCHANGED <<storage, reqVars, extVars>>

\* Every header was accepted: the blocks are committed in the validator's
\* order. A commit failure charges the peer like any validation failure.
SyncCommit ==
    /\ sync.pc = "validating"
    /\ sync.todo = << >>
    /\ LET o == get_order(validator)
           r == commit_in_order(storage, [blocks |-> o.blocks, order |-> o.order], o.ret)
       IN  /\ storage' = r.storage
           /\ UNCHANGED <<reqVars, extVars>>
           /\ validator' = NewValidator
           /\ call' = [op |-> "get_order", hash |-> 0, header |-> NoHeader,
                       io |-> 0, res |-> "Ok", ret |-> o.ret]
           /\ sync' = [sync EXCEPT !.pc = "idle",
                                   !.res = IF r.ok THEN "Ok" ELSE "CommitFailed"]
           /\ IF r.ok
              THEN UNCHANGED <<fail_count, peer_list, connection>>
              ELSE ChargePeer

\* -------------------------------------------------------- object requests

Tasks == 1..MaxTasks

ObjectRequests == 1..MaxKeys

\* A call of request_blocking_object, and thus its oneshot channel, is named
\* by its number.
CallIds == 1..MaxCalls

NoTask == [pc |-> "idle", request |-> 1, id |-> 0]

NoReturn == [task |-> 0, request |-> 1, id |-> 0, res |-> ""]

NoResponse == [pc |-> "idle", request |-> 1, res |-> "", sender |-> 0]

\* Call `id` of task t for `request` returns res to its caller.
returns(t, res) ==
    [task |-> t, request |-> task[t].request, id |-> task[t].id, res |-> res]

\* HashMap::remove: the map without the key.
remove(objects, request) ==
    [k \in DOMAIN objects \ {request} |-> objects[k]]

\* remove_object_request that hands out another request's sender on a miss.
remove_object_request_any(objects, request) ==
    IF request \in DOMAIN objects
    THEN [res |-> "Ok", sender |-> objects[request],
          objects |-> remove(objects, request)]
    ELSE IF DOMAIN objects = {}
    THEN [res |-> "ObjectNotFound", sender |-> 0, objects |-> objects]
    ELSE LET k == CHOOSE k \in DOMAIN objects : TRUE
         IN  [res |-> "Ok", sender |-> objects[k], objects |-> remove(objects, k)]

\* Peer::remove_object_request, under the lock of objects_requested.
remove_object_request(objects, request) ==
    IF request \in DOMAIN objects
    THEN [res |-> "Ok", sender |-> objects[request],
          objects |-> remove(objects, request)]
    ELSE [res |-> "ObjectNotFound", sender |-> 0, objects |-> objects]

\* A Sender leaves the map without being used: its receiver sees RecvError.
drop_sender(ch, objects, request) ==
    IF request \in DOMAIN objects /\ ch[objects[request]] = "open"
    THEN [ch EXCEPT ![objects[request]] = "dropped"]
    ELSE ch

\* request_blocking_object that never looks for the key in the map.
ReqLock_no_check(t, request) ==
    /\ task[t].pc = "idle"
    /\ ncalls < MaxCalls
    /\ objects_lock = 0
    /\ ncalls' = ncalls + 1
    /\ task' = [task EXCEPT ![t] = [pc |-> "send", request |-> request,
                                    id |-> ncalls + 1]]
    /\ objects_lock' = t
    /\ UNCHANGED <<objects_requested, chan, sent, ret, handler>>
    /\ UNCHANGED <<valVars, syncVars, extVars>>

\* request_blocking_object, lines 140-143: the lock is taken and the key
\* looked up; a key already in the map ends the call.
ReqLock(t, request) ==
    /\ task[t].pc = "idle"
    /\ ncalls < MaxCalls
    /\ objects_lock = 0
    /\ ncalls' = ncalls + 1
    /\ IF request \in DOMAIN objects_requested
       THEN /\ ret' = [task |-> t, request |-> request, id |-> ncalls + 1,
                       res |-> "ObjectAlreadyRequested"]
            /\ UNCHANGED <<task, objects_lock>>
       ELSE /\ task' = [task EXCEPT ![t] = [pc |-> "send", request |-> request,
                                            id |-> ncalls + 1]]
            /\ objects_lock' = t
            /\ UNCHANGED ret
    /\ UNCHANGED <<objects_requested, chan, sent, handler>>
    /\ UNCHANGED <<valVars, syncVars, extVars>>

\* Line 144 with the lock released once the packet is sent.
ReqSend_unlocks(t) ==
    /\ task[t].pc = "send"
    /\ IF connection
       THEN /\ sent' = sent + 1
            /\ task' = [task EXCEPT ![t].pc = "insert"]
            /\ objects_lock' = 0
            /\ UNCHANGED ret
       ELSE /\ ret' = returns(t, "SendError")
            /\ task' = [task EXCEPT ![t] = NoTask]
            /\ objects_lock' = 0
            /\ UNCHANGED sent
    /\ UNCHANGED <<objects_requested, chan, ncalls, handler>>
    /\ UNCHANGED <<valVars, syncVars, extVars>>

\* Line 144: the packet is sent with the lock held; a send error ends the call.
ReqSend(t) ==
    /\ task[t].pc = "send"
    /\ IF connection
       THEN /\ sent' = sent + 1
            /\ task' = [task EXCEPT ![t].pc = "insert"]
            /\ UNCHANGED <<objects_lock, ret>>
       ELSE /\ ret' = returns(t, "SendError")
            /\ task' = [task EXCEPT ![t] = NoTask]
            /\ objects_lock' = 0
            /\ UNCHANGED sent
    /\ UNCHANGED <<objects_requested, chan, ncalls, handler>>
    /\ UNCHANGED <<valVars, syncVars, extVars>>

\* Lines 145-148: the channel is made, its sender stored, the lock released.
ReqInsert(t) ==
    /\ task[t].pc = "insert"
    /\ objects_requested' = (task[t].request :> task[t].id)
                            @@ remove(objects_requested, task[t].request)
    /\ chan' = [chan EXCEPT ![task[t].id] = "open"]
    /\ objects_lock' = 0
    /\ task' = [task EXCEPT ![t].pc = "waiting"]
    /\ UNCHANGED <<ncalls, sent, ret, handler>>
    /\ UNCHANGED <<valVars, syncVars, extVars>>

\* Line 150, Ok(Ok(object)): the response came through the channel.
RecvOk(t) ==
    /\ task[t].pc = "waiting"
    /\ chan[task[t].id] = "value"
    /\ chan' = [chan EXCEPT ![task[t].id] = "closed"]
    /\ ret' = returns(t, "Ok")
    /\ task' = [task EXCEPT ![t] = NoTask]
    /\ UNCHANGED <<objects_requested, objects_lock, ncalls, sent, handler>>
    /\ UNCHANGED <<valVars, syncVars, extVars>>

\* Line 150, Ok(Err(RecvError)): the sender was dropped.
RecvDropped(t) ==
    /\ task[t].pc = "waiting"
    /\ chan[task[t].id] = "dropped"
    /\ chan' = [chan EXCEPT ![task[t].id] = "closed"]
    /\ ret' = returns(t, "RecvError")
    /\ task' = [task EXCEPT ![t] = NoTask]
    /\ UNCHANGED <<objects_requested, objects_lock, ncalls, sent, handler>>
    /\ UNCHANGED <<valVars, syncVars, extVars>>

\* Line 151: the deadline passed with nothing in the channel; the receiver
\* is gone with the timeout future.
TimerFire(t) ==
    /\ task[t].pc = "waiting"
    /\ chan[task[t].id] = "open"
    /\ chan' = [chan EXCEPT ![task[t].id] = "closed"]
    /\ task' = [task EXCEPT ![t].pc = "timedout"]
    /\ UNCHANGED <<objects_requested, objects_lock, ncalls, sent, ret, handler>>
    /\ UNCHANGED <<valVars, syncVars, extVars>>

\* The timeout branch that leaves the map as it is.
Cleanup_keeps_entry(t) ==
    /\ task[t].pc = "timedout"
    /\ objects_lock = 0
    /\ ret' = returns(t, "AsyncTimeOut")
    /\ task' = [task EXCEPT ![t] = NoTask]
    /\ UNCHANGED <<objects_requested, chan, objects_lock, ncalls, sent, handler>>
    /\ UNCHANGED <<valVars, syncVars, extVars>>

\* Lines 152-154: the lock is taken again and the entry under the request's
\* key removed, whichever call stored it.
Cleanup(t) ==
    /\ task[t].pc = "timedout"
    /\ objects_lock = 0
    /\ objects_requested' = remove(objects_requested, task[t].request)
    /\ chan' = drop_sender(chan, objects_requested, task[t].request)
    /\ ret' = returns(t, "AsyncTimeOut")
    /\ task' = [task EXCEPT ![t] = NoTask]
    /\ UNCHANGED <<objects_lock, ncalls, sent, handler>>
    /\ UNCHANGED <<valVars, syncVars, extVars>>

\* An ObjectResponse of the peer is handled: its slot is taken out of the map.
ObjectResponse(request) ==
    /\ handler.pc = "idle"
    /\ objects_lock = 0
    /\ LET r == remove_object_request(objects_requested, request)
       IN  /\ objects_requested' = r.objects
           /\ handler' = [pc |-> "removed", request |-> request,
                          res |-> r.res, sender |-> r.sender]
    /\ UNCHANGED <<objects_lock, task, chan, ncalls, sent, ret>>
    /\ UNCHANGED <<valVars, syncVars, extVars>>

\* The handler passes the response to the sender it got, or stops on
\* ObjectNotFound.
HandlerSend ==
    /\ handler.pc = "removed"
    /\ chan' = IF handler.res = "Ok" /\ chan[handler.sender] = "open"
               THEN [chan EXCEPT ![handler.sender] = "value"]
               ELSE chan
    /\ handler' = NoResponse
    /\ UNCHANGED <<objects_requested, objects_lock, task, ncalls, sent, ret>>
    /\ UNCHANGED <<valVars, syncVars, extVars>>

\* Peer::close on a connected peer.
PeerClose ==
    /\ connection
    /\ close
    /\ UNCHANGED <<sync, fail_count, reqVars, valVars, extVars>>

\* -------------------------------------------------------------------- ping

\* Block heights a peer advertises.
Heights == 0..MaxHeight

NoPing == [block_top_hash |-> GenesisHash, block_height |-> 0, seq |-> 0]

\* Peer::set_block_height: the atomic is stored at once.
set_block_height(tip, height) == [tip EXCEPT !.block_height = height]

\* Peer::set_block_top_hash, awaited: the mutex is taken and the hash stored.
set_block_top_hash(tip, hash) == [tip EXCEPT !.block_top_hash = hash]

\* Ping::update_connection that awaits the store of the top hash.
update_connection_awaited(tip, ping) ==
    set_block_height(set_block_top_hash(tip, ping.block_top_hash),
                     ping.block_height)

\* Ping::update_connection: set_block_top_hash is an async fn and its future
\* is bound to `_` without being awaited, so it is dropped before it runs;
\* only the height is stored.
update_connection(tip, ping) ==
    set_block_height(tip, ping.block_height)

\* The announcement (handshake or Ping) `a` as the writer of both fields: the
\* setters applied to it record, field by field, which announcement a stored
\* value came from.
written_by(a) == [block_top_hash |-> a, block_height |-> a]

\* A Ping of the peer is processed.
PingReceived(hash, height) ==
    /\ last_ping.seq < MaxPings
    /\ LET ping == [block_top_hash |-> hash, block_height |-> height]
       IN  /\ peer_tip' = update_connection(peer_tip, ping)
           /\ tip_origin' = update_connection(tip_origin, written_by(ping))
           /\ last_ping' = [block_top_hash |-> hash, block_height |-> height,
                            seq |-> last_ping.seq + 1]
    /\ UNCHANGED <<valVars, syncVars, reqVars, rpcVars, diffVars, chainVars, codecVars>>

\* The peer's tip is stored by a caller that awaits (handshake, block
\* propagation).
SetPeerTip(hash, height) ==
    /\ peer_tip' = set_block_height(set_block_top_hash(peer_tip, hash), height)
    /\ LET a == written_by([block_top_hash |-> hash, block_height |-> height])
       IN  tip_origin' = set_block_height(
                             set_block_top_hash(tip_origin, a.block_top_hash),
                             a.block_height)
    /\ UNCHANGED last_ping
    /\ UNCHANGED <<valVars, syncVars, reqVars, rpcVars, diffVars, chainVars, codecVars>>

\* The caller takes the result of the call.
Return ==
    /\ call.op # "none"
    /\ call' = NoCall
    /\ UNCHANGED <<storage, validator, syncVars, reqVars, extVars>>

\* The tips of a block accepted outside a sync: stored parents, ascending.
AcceptTips ==
    {t \in SeqsUpTo(0..MaxStored, TIPS_LIMIT) :
        \A i \in 1..Len(t) : \A j \in 1..Len(t) : i < j => t[i] < t[j]}

\* A block arrives outside any sync (mined here or gossiped) and is committed
\* through the engine, the store being its difficulty provider.
AcceptBlock(tips) ==
    LET hash == storage.top_topoheight + 1
        header == [tips |-> tips, height |-> storage.top_height + 1, pow |-> 1]
        r == commit_block(storage, hash, header)
    IN  /\ hash <= MaxStored
        /\ r.ok
        /\ storage' = r.storage
        /\ UNCHANGED <<validator, call, syncVars, reqVars, rpcVars, extVars>>

\* ----------------------------------------------------------------- VarUint

\* A VarUint (an unsigned 256-bit integer) is held as its base-256 digits,
\* least significant first, without leading zero digits; zero is << >>.
\* The operators below compute on natural numbers of any size; the 256-bit
\* width is applied where the program's operators apply it.
LimbBits == 8

LimbBase == 256

\* Digits of a 256-bit value.
VarUintLimbs == 32

\* The element of a one-element set: the({e(x) : x \in {v}}) computes v once
\* and names it x in e.
the(S) == CHOOSE x \in S : TRUE

limb(a, i) == IF i <= Len(a) THEN a[i] ELSE 0

RECURSIVE trim_to(_, _)
trim_to(a, n) ==
    IF n = 0 THEN << >>
    ELSE IF a[n] = 0 THEN trim_to(a, n - 1)
    ELSE SubSeq(a, 1, n)

\* a without its leading zero digits.
trim(a) == the({trim_to(x, Len(x)) : x \in {a}})

\* VarUint::from_u64 for the values the model uses.
RECURSIVE from_u64(_)
from_u64(n) ==
    IF n = 0 THEN << >>
    ELSE the({<<m % LimbBase>> \o from_u64(m \div LimbBase) : m \in {n}})

\* a * n + carry from digit i on, for a machine integer n.
RECURSIVE mul_small(_, _, _, _)
mul_small(a, n, i, carry) ==
    IF i > Len(a) THEN from_u64(carry)
    ELSE the({<<s % LimbBase>> \o mul_small(a, n, j, s \div LimbBase) :
              s \in {a[i] * n + carry}, j \in {i + 1}})

mul_u64(a, n) ==
    the({IF m = 0 THEN << >> ELSE mul_small(x, m, 1, 0) : x \in {a}, m \in {n}})

RECURSIVE add_from(_, _, _, _)
add_from(a, b, i, carry) ==
    IF i > Len(a) /\ i > Len(b) THEN from_u64(carry)
    ELSE the({<<s % LimbBase>> \o add_from(a, b, j, s \div LimbBase) :
              s \in {limb(a, i) + limb(b, i) + carry}, j \in {i + 1}})

add(a, b) == the({add_from(x, y, 1, 0) : x \in {a}, y \in {b}})

\* The value of a decimal numeral, most significant digit first.
RECURSIVE from_dec_at(_, _)
from_dec_at(digits, i) ==
    IF i = 0 THEN << >>
    ELSE add(mul_u64(from_dec_at(digits, i - 1), 10), from_u64(digits[i]))

from_dec(digits) == from_dec_at(digits, Len(digits))

RECURSIVE less_at(_, _, _)
less_at(a, b, i) ==
    IF i = 0 THEN FALSE
    ELSE IF a[i] # b[i] THEN a[i] < b[i]
    ELSE less_at(a, b, i - 1)

\* a < b
less(a, b) ==
    \E x \in {a}, y \in {b} :
        IF Len(x) # Len(y) THEN Len(x) < Len(y) ELSE less_at(x, y, Len(x))

RECURSIVE sub_from(_, _, _, _)
sub_from(a, b, i, borrow) ==
    IF i > Len(a) THEN << >>
    ELSE the({IF s < 0 THEN <<s + LimbBase>> \o sub_from(a, b, j, 1)
              ELSE <<s>> \o sub_from(a, b, j, 0) :
              s \in {a[i] - limb(b, i) - borrow}, j \in {i + 1}})

\* a - b for a >= b.
sub(a, b) == the({trim(sub_from(x, y, 1, 0)) : x \in {a}, y \in {b}})

\* a * 256^n and a \div 256^n.
shift_up(a, n) ==
    the({IF x = << >> THEN x ELSE [i \in 1..n |-> 0] \o x : x \in {a}})

shift_down(a, n) ==
    the({IF Len(x) <= n THEN << >> ELSE SubSeq(x, n + 1, Len(x)) : x \in {a}})

\* The low 256 bits of a.
low256(a) ==
    the({IF Len(x) <= VarUintLimbs THEN x ELSE trim(SubSeq(x, 1, VarUintLimbs)) :
         x \in {a}})

fits256(a) == Len(a) <= VarUintLimbs

RECURSIVE mul_at(_, _, _)
mul_at(a, b, i) ==
    IF i > Len(a) THEN << >>
    ELSE add(mul_u64(b, a[i]), shift_up(mul_at(a, b, i + 1), 1))

mul(a, b) ==
    the({IF Len(x) <= Len(y) THEN mul_at(x, y, 1) ELSE mul_at(y, x, 1) :
         x \in {a}, y \in {b}})

\* The largest digit q in lo..hi with q * b <= r, for lo * b <= r.
RECURSIVE quot_digit(_, _, _, _)
quot_digit(r, b, lo, hi) ==
    IF lo = hi THEN lo
    ELSE the({IF less(r, mul_u64(b, mid)) THEN quot_digit(r, b, lo, mid - 1)
              ELSE quot_digit(r, b, mid, hi) :
              mid \in {(lo + hi + 1) \div 2}})

\* Quotient and remainder of r by b for r < 256 * b, the quotient digit put
\* below the digits q.
divmod_digit(q, r, b) ==
    the({[q |-> trim(<<d>> \o q), r |-> sub(r, mul_u64(b, d))] :
         d \in {IF less(r, b) THEN 0 ELSE quot_digit(r, b, 1, LimbBase - 1)}})

\* Quotient and remainder of the digits of a from i on by b, for b # 0.
RECURSIVE divmod_at(_, _, _)
divmod_at(a, b, i) ==
    IF i > Len(a) THEN [q |-> << >>, r |-> << >>]
    ELSE the(UNION {{divmod_digit(up.q, r, b) : r \in {trim(<<a[i]>> \o up.r)}} :
                    up \in {divmod_at(a, b, i + 1)}})

div(a, b) == the({divmod_at(x, y, 1).q : x \in {a}, y \in {b}})

\* The machine integer of a small value.
RECURSIVE to_u64_at(_, _)
to_u64_at(a, i) == IF i > Len(a) THEN 0 ELSE a[i] + LimbBase * to_u64_at(a, i + 1)

to_u64(a) == the({to_u64_at(x, 1) : x \in {a}})

\* -------------------------------------------------------------- difficulty

SHIFT == 32

\* VarUint >> bits and VarUint << bits for a whole number of digits; the left
\* shift drops the bits above the 256th without an error.
shr(a, bits) == shift_down(a, bits \div LimbBits)

shl(a, bits) == low256(shift_up(a, bits \div LimbBits))

\* 1 << SHIFT
LEFT_SHIFT == shift_up(from_u64(1), SHIFT \div LimbBits)

\* (1 << SHIFT) / 100 * 5
PROCESS_NOISE_COVAR == mul_u64(div(LEFT_SHIFT, from_u64(100)), 5)

P == LEFT_SHIFT

BLOCK_TIME_MILLIS == BLOCK_TIME

\* A call that does not return: a VarUint operation panicked.
Panic(fn, what) ==
    [x_est_new |-> << >>, p_new |-> << >>, panic |-> what, at |-> fn]

KalmanResult(x_est_new, p_new) ==
    [x_est_new |-> x_est_new, p_new |-> p_new, panic |-> "", at |-> ""]

\* The estimate of an update that always adds the correction.
kalman_estimate_unsigned(z, x_est_prev, step) == add(x_est_prev, step)

\* Lines 41-45: the estimate moves from x_est_prev towards z by step.
kalman_estimate(z, x_est_prev, step) ==
    IF less(z, x_est_prev) THEN sub(x_est_prev, step) ELSE add(x_est_prev, step)

\* Lines 41-53, the products computed: the new estimate and covariance, scaled
\* down.  The VarUint operators *, + panic on a result wider than 256 bits,
\* - on a negative result and / on a zero divisor.
kalman_update(z, x_est_prev, p_pred, k, gain, p_scaled) ==
    the({IF ~fits256(gain) THEN Panic("kalman_filter", "overflow")
         ELSE IF less(z, x_est_prev) /\ less(x_est_prev, step)
         THEN Panic("kalman_filter", "underflow")
         ELSE the({IF ~fits256(x_est_new) THEN Panic("kalman_filter", "overflow")
                   ELSE IF less(LEFT_SHIFT, k) THEN Panic("kalman_filter", "underflow")
                   ELSE IF ~fits256(p_scaled) THEN Panic("kalman_filter", "overflow")
                   ELSE KalmanResult(shr(x_est_new, SHIFT), shr(p_scaled, SHIFT)) :
                   x_est_new \in {kalman_estimate(z, x_est_prev, step)}}) :
         step \in {shr(gain, SHIFT)}})

\* Line 37 and the products of lines 41-48.
kalman_gain(z, x_est_prev, p_pred, right) ==
    IF ~fits256(p_pred) \/ ~fits256(right) THEN Panic("kalman_filter", "overflow")
    ELSE IF right = << >> THEN Panic("kalman_filter", "division by zero")
    ELSE the(UNION {{kalman_update(z, x_est_prev, p_pred, k, gain, p_scaled) :
                     gain \in {mul(k, IF less(z, x_est_prev) THEN sub(x_est_prev, z)
                                      ELSE sub(z, x_est_prev))},
                     p_scaled \in {IF less(LEFT_SHIFT, k) THEN << >>
                                   ELSE mul(sub(LEFT_SHIFT, k), p_pred)}} :
                    k \in {div(shl(p_pred, SHIFT), right)}})

\* Line 34: the prediction step.
kalman_predict(z, x_est_prev, p_prev) ==
    IF ~fits256(z) \/ ~fits256(x_est_prev) THEN Panic("kalman_filter", "overflow")
    ELSE the({IF ~fits256(noise) THEN Panic("kalman_filter", "overflow")
              ELSE the(UNION {{kalman_gain(z, x_est_prev, p_pred, right) :
                               right \in {add(p_pred, z)}} :
                              p_pred \in {add(shr(noise, SHIFT), p_prev)}}) :
              noise \in {mul(x_est_prev, PROCESS_NOISE_COVAR)}})

\* kalman_filter: z and x_est_prev are scaled up, then the prediction and the
\* update follow.
kalman_filter(z, x_est_prev, p_prev) ==
    the({kalman_predict(z_up, x_up, p) :
         z_up \in {mul(z, LEFT_SHIFT)}, x_up \in {mul(x_est_prev, LEFT_SHIFT)},
         p \in {p_prev}})

DifficultyResult(difficulty, p) ==
    [difficulty |-> difficulty, p |-> p, panic |-> "", at |-> ""]

DifficultyPanic(fn, what) ==
    [difficulty |-> << >>, p |-> << >>, panic |-> what, at |-> fn]

\* Lines 65-70 without the floor of line 66.
difficulty_of_no_floor(r) ==
    IF r.panic # "" THEN DifficultyPanic(r.at, r.panic)
    ELSE DifficultyResult(mul_u64(r.x_est_new, BLOCK_TIME_MILLIS), r.p_new)

\* Lines 65-70: the difficulty of the estimate r that kalman_filter returned.
difficulty_of(r) ==
    IF r.panic # "" THEN DifficultyPanic(r.at, r.panic)
    ELSE the({IF ~fits256(difficulty)
                  THEN DifficultyPanic("calculate_difficulty", "overflow")
              ELSE IF less(difficulty, from_u64(MINIMUM_DIFFICULTY))
                  THEN DifficultyResult(from_u64(MINIMUM_DIFFICULTY), P)
              ELSE DifficultyResult(difficulty, r.p_new) :
              difficulty \in {mul_u64(r.x_est_new, BLOCK_TIME_MILLIS)}})

\* calculate_difficulty that takes previous_difficulty itself as the previous
\* estimate.
calculate_difficulty_unscaled(parent_timestamp, timestamp, previous_difficulty, p) ==
    IF timestamp <= parent_timestamp
        THEN DifficultyPanic("calculate_difficulty", "division by zero")
    ELSE the({difficulty_of(r) :
              r \in {kalman_filter(
                         div(previous_difficulty, from_u64(timestamp - parent_timestamp)),
                         previous_difficulty, p)}})

\* calculate_difficulty.  The timestamps are u64 milliseconds; a timestamp
\* below parent_timestamp panics in a build with overflow checks and wraps
\* otherwise, and no caller of the model passes one.
calculate_difficulty(parent_timestamp, timestamp, previous_difficulty, p) ==
    IF timestamp < parent_timestamp
        THEN DifficultyPanic("calculate_difficulty", "underflow")
    ELSE IF timestamp = parent_timestamp
        THEN DifficultyPanic("calculate_difficulty", "division by zero")
    ELSE the({difficulty_of(r) :
              r \in {kalman_filter(
                         div(previous_difficulty, from_u64(timestamp - parent_timestamp)),
                         div(previous_difficulty, from_u64(BLOCK_TIME_MILLIS)), p)}})

\* Observed hashrates and previous estimates the filter is called with.
Observations ==
    {0, 1, MINIMUM_DIFFICULTY \div 2000, MINIMUM_DIFFICULTY \div 1000,
     BLOCK_TIME_MILLIS \div 2, BLOCK_TIME_MILLIS}

Estimates == {0, 1, 10, 200}

NoFilterCall ==
    [z |-> << >>, x_est_prev |-> << >>, p_prev |-> << >>,
     x_est_new |-> << >>, p_new |-> P, panic |-> "", calls |-> 0]

\* kalman_filter is called on an observation; the covariance is the one the
\* previous call returned (P at first).
KalmanFilter(z, x_est_prev) ==
    /\ kalman.calls < MaxFilterCalls
    /\ kalman.panic = ""
    /\ \E r \in {kalman_filter(from_u64(z), from_u64(x_est_prev), kalman.p_new)} :
           kalman' = [z |-> from_u64(z), x_est_prev |-> from_u64(x_est_prev),
                      p_prev |-> kalman.p_new,
                      x_est_new |-> r.x_est_new, p_new |-> r.p_new,
                      panic |-> r.panic, calls |-> kalman.calls + 1]
    /\ UNCHANGED <<valVars, syncVars, reqVars, rpcVars, pingVars, top_block, chainVars, codecVars>>

\* Solve times of a block: the timestamp of its parent, a millisecond later,
\* half the block time, the block time, twice the block time.
SolveTimes == {0, 1, BLOCK_TIME_MILLIS \div 2, BLOCK_TIME_MILLIS, 2 * BLOCK_TIME_MILLIS}

\* Solve times of a chain mined at a hashrate far above the difficulty.
SurgeTimes == {1, 2}

GenesisTip ==
    [timestamp |-> 0, difficulty |-> from_u64(GENESIS_BLOCK_DIFFICULTY), p |-> P,
     panic |-> "", at |-> "", solve_time |-> 0, blocks |-> 0]

\* A block is added on the tip solve_time milliseconds after it: its
\* difficulty and covariance come from calculate_difficulty on the tip's.
next_tip(t, solve_time) ==
    the({IF r.panic # ""
         THEN [t EXCEPT !.panic = r.panic, !.at = r.at, !.solve_time = solve_time]
         ELSE [timestamp |-> t.timestamp + solve_time,
               difficulty |-> r.difficulty, p |-> r.p,
               panic |-> "", at |-> "", solve_time |-> solve_time,
               blocks |-> t.blocks + 1] :
         r \in {calculate_difficulty(t.timestamp, t.timestamp + solve_time,
                                     t.difficulty, t.p)}})

NextBlock(solve_time) ==
    /\ top_block.panic = ""
    /\ top_block' = next_tip(top_block, solve_time)
    /\ UNCHANGED <<valVars, syncVars, reqVars, rpcVars, pingVars, kalman, chainVars, codecVars>>

\* ------------------------------------------------------- commit and rewind

\* The topoheight of a block of the store.
topoheight_of(s, hash) == (CHOOSE i \in 1..Len(s.topo) : s.topo[i] = hash) - 1

\* Stable: topoheight + STABLE_HEIGHT_LIMIT <= top_topoheight.
is_stable(s, hash) ==
    /\ has_block(s, hash)
    /\ topoheight_of(s, hash) + STABLE_HEIGHT_LIMIT <= s.top_topoheight

\* The blocks seen Stable so far, each with the topoheight it had when it
\* became Stable.
mark_stable(s, seen) ==
    [h \in DOMAIN seen \cup {b \in DOMAIN s.blocks : is_stable(s, b)} |->
        IF h \in DOMAIN seen THEN seen[h] ELSE topoheight_of(s, h)]

\* Storage::pop_blocks: the count highest topoheights are deleted in reverse
\* order, each with the block ordered there; the tips and the top height are
\* those of what is left.
pop_blocks(s, count) ==
    LET topo == SubSeq(s.topo, 1, Len(s.topo) - count)
        left == Range(topo)
    IN  [ blocks |-> [h \in left |-> s.blocks[h]],
          tips |-> {h \in left :
                      \A c \in left : h \notin Range(s.blocks[c].header.tips)},
          top_height |-> CHOOSE m \in {s.blocks[h].header.height : h \in left} :
                            \A h \in left : s.blocks[h].header.height <= m,
          top_topoheight |-> s.top_topoheight - count,
          topo |-> topo ]

\* rewind(n) is refused beyond MAX_BLOCK_REWIND below the current top, and
\* the genesis block is never popped.
rewind_allowed(s, count) ==
    /\ count <= MAX_BLOCK_REWIND
    /\ count <= s.top_topoheight

\* ---------------------------------------------------------------- accounts

\* Public keys of the accounts and the assets they hold.
Accounts == {1, 2}

XELIS_ASSET == 0

Assets == {XELIS_ASSET, 1}

\* Hashes of the transactions blocks may carry.
TxHashes == 1..MaxTx

\* The transaction of hash tx: a transfer of amount tx of one asset from one
\* account to the other.
transaction(tx) ==
    [sender |-> 1 + (tx % 2), to |-> 2 - (tx % 2),
     asset |-> (tx \div 2) % 2, amount |-> tx]

\* tx_hashes of a block: transactions in increasing order of hash.
TxLists ==
    {txs \in SeqsUpTo(TxHashes, MaxTx) :
        \A i \in 1..Len(txs) - 1 : txs[i] < txs[i + 1]}

\* The key that mined block hash.
miner(hash) == 1 + (hash % 2)

\* An Option is the set of its values: {} is None, {x} is Some(x).
VersionedBalance(balance, previous_topoheight) ==
    [final_balance |-> balance, output_balance |-> {},
     previous_topoheight |-> previous_topoheight]

VersionedNonce(nonce, previous_topoheight) ==
    [nonce |-> nonce, previous_topoheight |-> previous_topoheight]

\* The account side of the store after loading the genesis block:
\*   txs           blocks/<hash>: the tx_hashes of the block
\*   supply        supply/<hash>
\*   tx_executed   tx_executed_in_block/<tx> -> block hash
\*   balances      balance/<pubkey|asset|topo> -> version
\*   balance_head  balance_head/<pubkey|asset> -> topo
\*   nonces        nonce/<pubkey|topo> -> version
\*   nonce_head    nonce_head/<pubkey> -> topo
\*   pruned_topoheight  the topoheight of the last snapshot
GenesisLedger ==
    [ txs |-> [h \in {GenesisHash} |-> << >>],
      supply |-> [h \in {GenesisHash} |-> 0],
      tx_executed |-> << >>,
      balances |-> << >>,
      balance_head |-> << >>,
      nonces |-> << >>,
      nonce_head |-> << >>,
      pruned_topoheight |-> {} ]

\* f without the keys of D.
without(f, D) == [x \in DOMAIN f \ D |-> f[x]]

\* A lookup that finds no transaction marked.
is_tx_executed_in_a_block_never(l, tx) == FALSE

is_tx_executed_in_a_block(l, tx) == tx \in DOMAIN l.tx_executed

set_tx_executed_in_block(l, tx, block) ==
    [l EXCEPT !.tx_executed = (tx :> block) @@ @]

\* A removal that leaves the mark.
remove_tx_executed_kept(l, tx) == l

remove_tx_executed(l, tx) == [l EXCEPT !.tx_executed = without(@, {tx})]

has_balance_for(l, key, asset) == <<key, asset>> \in DOMAIN l.balance_head

has_balance_at_exact_topoheight(l, key, asset, topoheight) ==
    <<key, asset, topoheight>> \in DOMAIN l.balances

set_last_topoheight_for_balance(l, key, asset, topoheight) ==
    [l EXCEPT !.balance_head = (<<key, asset>> :> topoheight) @@ @]

delete_last_topoheight_for_balance(l, key, asset) ==
    [l EXCEPT !.balance_head = without(@, {<<key, asset>>})]

set_balance_at_topoheight(l, asset, topoheight, key, balance) ==
    [l EXCEPT !.balances = (<<key, asset, topoheight>> :> balance) @@ @]

delete_balance_at_topoheight(l, key, asset, topoheight) ==
    [l EXCEPT !.balances = without(@, {<<key, asset, topoheight>>})]

\* The version chain of (key, asset) is followed from topo down to the first
\* version at or below topoheight.
RECURSIVE balance_at_maximum(_, _, _, _, _)
balance_at_maximum(l, key, asset, topo, topoheight) ==
    IF topo <= topoheight THEN {topo}
    ELSE IF ~has_balance_at_exact_topoheight(l, key, asset, topo) THEN {}
    ELSE the({IF prev = {} THEN {}
              ELSE balance_at_maximum(l, key, asset, the(prev), topoheight) :
              prev \in {l.balances[<<key, asset, topo>>].previous_topoheight}})

\* get_balance_at_maximum_topoheight, the topoheight of its result.
get_balance_at_maximum_topoheight(l, key, asset, topoheight) ==
    IF ~has_balance_for(l, key, asset) THEN {}
    ELSE balance_at_maximum(l, key, asset, l.balance_head[<<key, asset>>], topoheight)

\* The version to write at topoheight: the last one at or below it, linked to
\* the topoheight it was read at.
get_new_versioned_balance(l, key, asset, topoheight) ==
    the({IF at = {} THEN VersionedBalance(0, {})
         ELSE IF the(at) # topoheight
             THEN [l.balances[<<key, asset, the(at)>>] EXCEPT
                       !.previous_topoheight = at]
         ELSE l.balances[<<key, asset, topoheight>>] :
         at \in {get_balance_at_maximum_topoheight(l, key, asset, topoheight)}})

\* A write of the version that leaves the last-topoheight pointer.
set_balance_to_version_only(l, key, asset, topoheight, version) ==
    set_balance_at_topoheight(l, asset, topoheight, key, version)

set_balance_to(l, key, asset, topoheight, version) ==
    set_last_topoheight_for_balance(
        set_balance_at_topoheight(l, asset, topoheight, key, version),
        key, asset, topoheight)

has_nonce(l, key) == key \in DOMAIN l.nonce_head

has_nonce_at_exact_topoheight(l, key, topoheight) ==
    <<key, topoheight>> \in DOMAIN l.nonces

RECURSIVE nonce_at_maximum(_, _, _, _)
nonce_at_maximum(l, key, topo, topoheight) ==
    IF topo <= topoheight THEN {topo}
    ELSE IF ~has_nonce_at_exact_topoheight(l, key, topo) THEN {}
    ELSE the({IF prev = {} THEN {}
              ELSE nonce_at_maximum(l, key, the(prev), topoheight) :
              prev \in {l.nonces[<<key, topo>>].previous_topoheight}})

get_nonce_at_maximum_topoheight(l, key, topoheight) ==
    IF ~has_nonce(l, key) THEN {}
    ELSE nonce_at_maximum(l, key, l.nonce_head[key], topoheight)

set_last_topoheight_for_nonce(l, key, topoheight) ==
    [l EXCEPT !.nonce_head = (key :> topoheight) @@ @]

\* The nonce is written at topoheight, linked to the last version below it.
set_nonce_at_topoheight(l, key, nonce, topoheight) ==
    the({[l EXCEPT !.nonces =
              (<<key, topoheight>> :>
                  VersionedNonce(nonce,
                      IF at = {} THEN {}
                      ELSE IF the(at) # topoheight THEN at
                      ELSE l.nonces[<<key, topoheight>>].previous_topoheight)) @@ @] :
         at \in {get_nonce_at_maximum_topoheight(l, key, topoheight)}})

\* The nonce an account is at: that of its last version, 0 without one.
last_nonce(l, key) ==
    IF ~has_nonce(l, key) THEN 0 ELSE l.nonces[<<key, l.nonce_head[key]>>].nonce

\* ------------------------------------------------------------ chain state

\* The reward of a block, in reward units: the emission curve is flat over
\* the few blocks of a chain of the model.
get_block_reward(supply) == 1

\* Debit of the sender: final balance and output balance.
debit(l, key, asset, amount, topoheight) ==
    the({set_balance_to(l, key, asset, topoheight,
             [v EXCEPT !.final_balance = @ - amount,
                       !.output_balance =
                           {(IF @ = {} THEN v.final_balance ELSE the(@)) - amount}]) :
         v \in {get_new_versioned_balance(l, key, asset, topoheight)}})

\* Credit of a recipient: final balance.
credit(l, key, asset, amount, topoheight) ==
    the({set_balance_to(l, key, asset, topoheight,
             [v EXCEPT !.final_balance = @ + amount]) :
         v \in {get_new_versioned_balance(l, key, asset, topoheight)}})

\* The sender's nonce moves to the next one.
bump_nonce(l, key, topoheight) ==
    the({set_last_topoheight_for_nonce(
             set_nonce_at_topoheight(x, key, last_nonce(x, key) + 1, topoheight),
             key, topoheight) :
         x \in {l}})

\* The effects of a transaction, whether or not a block executed it before.
execute_tx_again(l, topoheight, hash, tx) ==
    the({set_tx_executed_in_block(
             bump_nonce(
                 credit(debit(l, t.sender, t.asset, t.amount, topoheight),
                        t.to, t.asset, t.amount, topoheight),
                 t.sender, topoheight),
             tx, hash) :
         t \in {transaction(tx)}})

\* Step 2 of commit for one transaction of the block ordered at topoheight:
\* a transaction not yet marked executed anywhere has its effects applied
\* and is marked executed in this block.
execute_tx(l, topoheight, hash, tx) ==
    IF is_tx_executed_in_a_block(l, tx) THEN l
    ELSE execute_tx_again(l, topoheight, hash, tx)

RECURSIVE execute_transactions(_, _, _, _, _)
execute_transactions(l, topoheight, hash, txs, i) ==
    IF i > Len(txs) THEN l
    ELSE the({execute_transactions(x, topoheight, hash, txs, i + 1) :
              x \in {execute_tx(l, topoheight, hash, txs[i])}})

\* The block ordered at topoheight is executed: its transactions, the reward
\* of its miner and the supply.
execute_block(l, order, topoheight) ==
    the(UNION {{[credit(execute_transactions(l, topoheight, hash, l.txs[hash], 1),
                        miner(hash), XELIS_ASSET, get_block_reward(past), topoheight)
                    EXCEPT !.supply = (hash :> past + get_block_reward(past)) @@ @] :
                 past \in {l.supply[order[topoheight]]}} :
               hash \in {order[topoheight + 1]}})

\* The blocks of order from topoheight on are executed in order.
RECURSIVE execute_order(_, _, _)
execute_order(l, order, topoheight) ==
    IF topoheight >= Len(order) THEN l
    ELSE the({execute_order(x, order, topoheight + 1) :
              x \in {execute_block(l, order, topoheight)}})

\* A deletion that leaves the versions.
delete_versioned_balances_for_asset_at_topoheight_kept(l, asset, topoheight) == l

\* delete_versioned_balances_for_asset_at_topoheight
delete_versioned_balances_for_asset_at_topoheight(l, asset, topoheight) ==
    [l EXCEPT !.balances =
        without(@, {<<key, asset, topoheight>> : key \in Accounts})]

\* delete_versioned_nonces_at_topoheight
delete_versioned_nonces_at_topoheight(l, topoheight) ==
    [l EXCEPT !.nonces = without(@, {<<key, topoheight>> : key \in Accounts})]

\* The heads at topoheight go back to the version before: the chains with
\* one get it as their head, the others have no head any more.
RECURSIVE rewind_balance_heads(_, _, _)
rewind_balance_heads(l, chains, topoheight) ==
    IF chains = {} THEN l
    ELSE the(UNION {{rewind_balance_heads(
                         IF prior = {}
                             THEN delete_last_topoheight_for_balance(l, c[1], c[2])
                         ELSE set_last_topoheight_for_balance(l, c[1], c[2], the(prior)),
                         chains \ {c}, topoheight) :
                     prior \in {IF has_balance_at_exact_topoheight(l, c[1], c[2], topoheight)
                                THEN l.balances[<<c[1], c[2], topoheight>>].previous_topoheight
                                ELSE {}}} :
                    c \in {CHOOSE x \in chains : TRUE}})

delete_last_topoheight_for_nonce(l, key) ==
    [l EXCEPT !.nonce_head = without(@, {key})]

RECURSIVE rewind_nonce_heads(_, _, _)
rewind_nonce_heads(l, keys, topoheight) ==
    IF keys = {} THEN l
    ELSE the(UNION {{rewind_nonce_heads(
                         IF prior = {} THEN delete_last_topoheight_for_nonce(l, key)
                         ELSE set_last_topoheight_for_nonce(l, key, the(prior)),
                         keys \ {key}, topoheight) :
                     prior \in {IF has_nonce_at_exact_topoheight(l, key, topoheight)
                                THEN l.nonces[<<key, topoheight>>].previous_topoheight
                                ELSE {}}} :
                    key \in {CHOOSE x \in keys : TRUE}})

RECURSIVE delete_versioned_balances_at_topoheight(_, _, _)
delete_versioned_balances_at_topoheight(l, assets, topoheight) ==
    IF assets = {} THEN l
    ELSE the({delete_versioned_balances_at_topoheight(
                  delete_versioned_balances_for_asset_at_topoheight(l, asset, topoheight),
                  assets \ {asset}, topoheight) :
              asset \in {CHOOSE a \in assets : TRUE}})

\* The transactions of txs are unmarked.
RECURSIVE unmark_transactions(_, _)
unmark_transactions(l, txs) ==
    IF txs = {} THEN l
    ELSE the({unmark_transactions(remove_tx_executed(l, tx), txs \ {tx}) :
              tx \in {CHOOSE x \in txs : TRUE}})

\* What the block hash ordered at topoheight produced is undone: the heads
\* go back, the versions of that topoheight are deleted, the transactions
\* the block executed are unmarked and its supply is deleted.
rewind_topoheight(l, topoheight, hash) ==
    the({[unmark_transactions(x, {tx \in DOMAIN x.tx_executed : x.tx_executed[tx] = hash})
             EXCEPT !.supply = without(@, {hash})] :
         x \in {delete_versioned_nonces_at_topoheight(
                    delete_versioned_balances_at_topoheight(
                        rewind_nonce_heads(
                            rewind_balance_heads(
                                l, {c \in DOMAIN l.balance_head :
                                      l.balance_head[c] = topoheight}, topoheight),
                            {key \in DOMAIN l.nonce_head : l.nonce_head[key] = topoheight},
                            topoheight),
                        Assets, topoheight),
                    topoheight)}})

\* The topoheights from the top of order down to topoheight are undone in
\* reverse.
RECURSIVE rewind_to(_, _, _)
rewind_to(l, order, topoheight) ==
    IF Len(order) - 1 < topoheight THEN l
    ELSE the({rewind_to(x, SubSeq(order, 1, Len(order) - 1), topoheight) :
              x \in {rewind_topoheight(l, Len(order) - 1, order[Len(order)])}})

\* compute_topological_order: the blocks whose tips are all ordered are
\* eligible; the one of higher cumulative difficulty, then of lower hash, is
\* ordered next.
RECURSIVE order_from(_, _)
order_from(blocks, ordered) ==
    the({IF eligible = {} THEN ordered
         ELSE order_from(blocks,
                  Append(ordered,
                      CHOOSE h \in eligible : \A o \in eligible :
                          \/ blocks[h].cumulative_difficulty > blocks[o].cumulative_difficulty
                          \/ /\ blocks[h].cumulative_difficulty = blocks[o].cumulative_difficulty
                             /\ h <= o)) :
         eligible \in {{h \in DOMAIN blocks \ Range(ordered) :
                          Range(blocks[h].header.tips) \subseteq Range(ordered)}}})

compute_topological_order(blocks) == order_from(blocks, << >>)

\* The number of leading blocks two orders share.
common_prefix(a, b) ==
    CHOOSE n \in 0..Len(a) :
        /\ n <= Len(b)
        /\ \A i \in 1..n : a[i] = b[i]
        /\ n = Len(a) \/ n = Len(b) \/ a[n + 1] # b[n + 1]

\* commit(block, txs): the block is written, the topological order is
\* recomputed, what the blocks of the affected window produced is undone and
\* the newly ordered blocks are executed in order.
commit(s, l, hash, header, txs) ==
    the({IF ~r.ok THEN [ok |-> FALSE, undone |-> 0, storage |-> s, ledger |-> l]
         ELSE the(UNION {{[ok |-> TRUE, undone |-> Len(s.topo) - kept,
                           storage |-> [r.storage EXCEPT !.topo = order],
                           ledger |-> execute_order(
                                          rewind_to([l EXCEPT !.txs = (hash :> txs) @@ @],
                                                    s.topo, kept),
                                          order, kept)] :
                          kept \in {common_prefix(s.topo, order)}} :
                         order \in {compute_topological_order(r.storage.blocks)}}) :
         r \in {commit_block(s, hash, header)}})

\* create_snapshot_balances_at_topoheight for one chain: a chain whose head is
\* under topoheight keeps its last version, moved to topoheight; a chain with
\* versions at or above topoheight is cut where it goes under it.  The
\* versions under topoheight are deleted.
snapshot_balance(l, key, asset, topoheight) ==
    the(UNION {{[l EXCEPT
                   !.balances =
                       [q \in {v \in DOMAIN @ \cup
                                   (IF head < topoheight THEN {<<key, asset, topoheight>>}
                                    ELSE {}) :
                                 v[1] # key \/ v[2] # asset \/ v[3] >= topoheight} |->
                           IF q[1] # key \/ q[2] # asset THEN @[q]
                           ELSE IF head < topoheight
                               THEN [@[chain] EXCEPT !.previous_topoheight = {}]
                           ELSE IF @[q].previous_topoheight # {}
                                   /\ the(@[q].previous_topoheight) < topoheight
                               THEN [@[q] EXCEPT !.previous_topoheight = {}]
                           ELSE @[q]],
                   !.balance_head =
                       [@ EXCEPT ![<<key, asset>>] = IF head < topoheight THEN topoheight
                                                     ELSE head]] :
                 chain \in {<<key, asset, head>>}} :
               head \in {l.balance_head[<<key, asset>>]}})

RECURSIVE snapshot_balances(_, _, _)
snapshot_balances(l, chains, topoheight) ==
    IF chains = {} THEN l
    ELSE the({snapshot_balances(snapshot_balance(l, c[1], c[2], topoheight),
                                chains \ {c}, topoheight) :
              c \in {CHOOSE c \in chains : TRUE}})

create_snapshot_balances_at_topoheight(l, assets, topoheight) ==
    snapshot_balances(l, {c \in DOMAIN l.balance_head : c[2] \in assets}, topoheight)

\* create_snapshot_nonces_at_topoheight for one account: as for a balance.
snapshot_nonce(l, key, topoheight) ==
    the({[l EXCEPT
            !.nonces =
                [q \in {v \in DOMAIN @ \cup
                            (IF head < topoheight THEN {<<key, topoheight>>} ELSE {}) :
                          v[1] # key \/ v[2] >= topoheight} |->
                    IF q[1] # key THEN @[q]
                    ELSE IF head < topoheight
                        THEN [@[<<key, head>>] EXCEPT !.previous_topoheight = {}]
                    ELSE IF @[q].previous_topoheight # {}
                            /\ the(@[q].previous_topoheight) < topoheight
                        THEN [@[q] EXCEPT !.previous_topoheight = {}]
                    ELSE @[q]],
            !.nonce_head =
                [@ EXCEPT ![key] = IF head < topoheight THEN topoheight ELSE head]] :
         head \in {l.nonce_head[key]}})

RECURSIVE snapshot_nonces(_, _, _)
snapshot_nonces(l, keys, topoheight) ==
    IF keys = {} THEN l
    ELSE the({snapshot_nonces(snapshot_nonce(l, key, topoheight),
                              keys \ {key}, topoheight) :
              key \in {CHOOSE k \in keys : TRUE}})

create_snapshot_nonces_at_topoheight(l, topoheight) ==
    snapshot_nonces(l, DOMAIN l.nonce_head, topoheight)

set_pruned_topoheight(l, pruned_topoheight) ==
    [l EXCEPT !.pruned_topoheight = {pruned_topoheight}]

\* The blocks pop_blocks(count) removes, in the order they were ordered in.
popped_blocks(s, l, count) ==
    [i \in 1..count |->
        [hash |-> s.topo[Len(s.topo) - count + i],
         header |-> s.blocks[s.topo[Len(s.topo) - count + i]].header,
         txs |-> l.txs[s.topo[Len(s.topo) - count + i]]]]

\* rewind(n): refused beyond MAX_BLOCK_REWIND below the current top; the n
\* highest topoheights are undone in reverse and their blocks deleted.
rewind(s, l, count) ==
    IF ~rewind_allowed(s, count) THEN [ok |-> FALSE, storage |-> s, ledger |-> l]
    ELSE [ok |-> TRUE,
          storage |-> pop_blocks(s, count),
          ledger |-> the({[x EXCEPT !.txs = without(@, DOMAIN @ \ Range(left))] :
                          x \in {rewind_to(l, s.topo, s.top_topoheight - count + 1)},
                          left \in {SubSeq(s.topo, 1, Len(s.topo) - count)}})]

\* The last operation of the chain mutator task; count is the number of
\* topoheights it undid.  A rewind keeps the store it found (before) and the
\* blocks it removed (todo) for a re-commit.
NoChainCall ==
    [op |-> "none", count |-> 0, res |-> "", before |-> << >>, todo |-> << >>]

ChainCall(op, count, res) ==
    [op |-> op, count |-> count, res |-> res, before |-> << >>, todo |-> << >>]

\* The hashes of S in increasing order.
RECURSIVE sorted(_)
sorted(S) ==
    IF S = {} THEN << >>
    ELSE the({<<m>> \o sorted(S \ {m}) : m \in {CHOOSE x \in S : \A y \in S : x <= y}})

\* A block with the tips and the transactions txs is committed.
CommitBlock(hash, tips, txs) ==
    /\ \A i \in 1..Len(tips) : has_block(storage, tips[i])
    /\ \E r \in {commit(storage, ledger, hash,
                        [tips |-> tips,
                         height |-> 1 + storage.blocks[
                             CHOOSE p \in Range(tips) : \A q \in Range(tips) :
                                 storage.blocks[q].header.height
                                     <= storage.blocks[p].header.height].header.height,
                         pow |-> 1],
                        txs)} :
           /\ r.ok
           /\ storage' = r.storage
           /\ ledger' = r.ledger
           /\ was_stable' = mark_stable(r.storage, was_stable)
           /\ chain_call' = ChainCall("commit", r.undone, "Ok")
    /\ minted' = Max(minted, hash)
    /\ UNCHANGED <<validator, call, syncVars, reqVars, rpcVars, pingVars, diffVars, codecVars>>

\* A block mined on the top block, without transactions, is committed.
AddNewBlock ==
    /\ minted < MaxMinted
    /\ CommitBlock(minted + 1, <<storage.topo[Len(storage.topo)]>>, << >>)

\* The chain is rewound by count topoheights.
RewindChain(count) ==
    /\ \E r \in {rewind(storage, ledger, count)} :
           /\ storage' = r.storage
           /\ ledger' = r.ledger
           /\ chain_call' =
                  IF ~r.ok THEN ChainCall("rewind", count, "Err")
                  ELSE [op |-> "rewind", count |-> count, res |-> "Ok",
                        before |-> <<storage, ledger>>,
                        todo |-> popped_blocks(storage, ledger, count)]
    /\ UNCHANGED <<minted, was_stable>>
    /\ UNCHANGED <<validator, call, syncVars, reqVars, rpcVars, pingVars, diffVars, codecVars>>

\* The next of the blocks the last rewind removed is committed again.
Recommit ==
    /\ chain_call.op \in {"rewind", "recommit"}
    /\ chain_call.todo # << >>
    /\ \E b \in {Head(chain_call.todo)} :
       \E r \in {commit(storage, ledger, b.hash, b.header, b.txs)} :
           /\ r.ok
           /\ storage' = r.storage
           /\ ledger' = r.ledger
    /\ chain_call' = [chain_call EXCEPT !.op = "recommit", !.todo = Tail(@)]
    /\ UNCHANGED <<minted, was_stable>>
    /\ UNCHANGED <<validator, call, syncVars, reqVars, rpcVars, pingVars, diffVars, codecVars>>

\* A snapshot of the balances and nonces is made at topoheight.
Snapshot(topoheight) ==
    /\ topoheight <= storage.top_topoheight
    /\ \A pruned \in ledger.pruned_topoheight : pruned < topoheight
    /\ ledger' = set_pruned_topoheight(
                     create_snapshot_nonces_at_topoheight(
                         create_snapshot_balances_at_topoheight(ledger, Assets, topoheight),
                         topoheight),
                     topoheight)
    /\ chain_call' = ChainCall("snapshot", topoheight, "Ok")
    /\ UNCHANGED <<storage, minted, was_stable>>
    /\ UNCHANGED <<validator, call, syncVars, reqVars, rpcVars, pingVars, diffVars, codecVars>>

\* The hashes of the blocks of a chain with transactions.
LedgerHashes == 1..MaxLedgerBlocks

\* The hash of a new block: the lowest or the highest one not in the store.
NewHashes(s) ==
    {h \in LedgerHashes \ DOMAIN s.blocks :
        \/ \A o \in LedgerHashes \ DOMAIN s.blocks : h <= o
        \/ \A o \in LedgerHashes \ DOMAIN s.blocks : h >= o}

\* The tips of a new block: the top block, the block ordered before it, or
\* the tips of the DAG.
NewTips(s) ==
    {<<s.topo[i]>> : i \in {j \in {Len(s.topo) - 1, Len(s.topo)} : j >= 1}}
        \cup {sorted(t) : t \in {x \in {s.tips} :
                                    Cardinality(x) > 1 /\ Cardinality(x) <= TIPS_LIMIT}}

\* The transactions of a new block: none, one, or all.
NewTxs == {txs \in TxLists : Len(txs) <= 1 \/ Len(txs) = MaxTx}

\* ------------------------------------------------------------ binary codec

\* Bytes are 0..255.  A u64 is held as a VarUint is, by its base-256 digits,
\* so that every value of eight bytes has one.
reverse(s) == [i \in 1..Len(s) |-> s[Len(s) + 1 - i]]

\* uN::to_be_bytes for a value of width bytes; a wider value loses its high
\* bytes, as the cast `as u32` does.
to_be_bytes(a, width) == [i \in 1..width |-> limb(a, width + 1 - i)]

\* uN::from_be_bytes
from_be_bytes(bytes) == trim(reverse(bytes))

U64_SIZE == 8

HASH_SIZE == 32

\* A compressed ciphertext: a commitment and a decrypt handle of 32 bytes each.
CIPHERTEXT_SIZE == 64

\* The bytes left in a reader and what a read makes of them.
ReadOk(value, rest) == [ok |-> TRUE, value |-> value, rest |-> rest]

ReadErr(rest) == [ok |-> FALSE, value |-> << >>, rest |-> rest]

\* Reader::read_u8, read_u64, read_hash
read_u8(bytes) ==
    IF Len(bytes) < 1 THEN ReadErr(bytes)
    ELSE ReadOk(bytes[1], SubSeq(bytes, 2, Len(bytes)))

read_u64(bytes) ==
    IF Len(bytes) < U64_SIZE THEN ReadErr(bytes)
    ELSE ReadOk(from_be_bytes(SubSeq(bytes, 1, U64_SIZE)),
                SubSeq(bytes, U64_SIZE + 1, Len(bytes)))

read_hash(bytes) ==
    IF Len(bytes) < HASH_SIZE THEN ReadErr(bytes)
    ELSE ReadOk(SubSeq(bytes, 1, HASH_SIZE), SubSeq(bytes, HASH_SIZE + 1, Len(bytes)))

\* Ciphertext::read
Ciphertext_read(bytes) ==
    IF Len(bytes) < CIPHERTEXT_SIZE THEN ReadErr(bytes)
    ELSE ReadOk(SubSeq(bytes, 1, CIPHERTEXT_SIZE),
                SubSeq(bytes, CIPHERTEXT_SIZE + 1, Len(bytes)))

\* A sequence of n bytes: byte i is first + (i - 1) * step.
pattern(n, first, step) == [i \in 1..n |-> (first + (i - 1) * step) % LimbBase]

Ciphertexts == {pattern(CIPHERTEXT_SIZE, 0, 0), pattern(CIPHERTEXT_SIZE, 1, 3)}

Topoheights == {from_u64(0), from_u64(1), from_u64(MaxTopoheight)}

\* The VersionedBalance values written to the store.
VersionedBalances ==
    [final_balance : Ciphertexts,
     output_balance : {{}} \cup {{c} : c \in Ciphertexts},
     previous_topoheight : {{}} \cup {{t} : t \in Topoheights}]

\* impl Serializer for VersionedBalance: write
VersionedBalance_write(v) ==
    v.final_balance
        \o (IF v.previous_topoheight = {} THEN << >>
            ELSE to_be_bytes(the(v.previous_topoheight), U64_SIZE))
        \o (IF v.output_balance = {} THEN << >> ELSE the(v.output_balance))

\* Lines 114-122 of read: what follows final_balance, told apart by the
\* number of bytes left.
VersionedBalance_read_rest(final_balance, bytes) ==
    IF Len(bytes) = 0
        THEN ReadOk([final_balance |-> final_balance, output_balance |-> {},
                     previous_topoheight |-> {}], bytes)
    ELSE the({IF ~topo.ok THEN ReadErr(topo.rest)
              ELSE IF Len(bytes) = U64_SIZE
                  THEN ReadOk([final_balance |-> final_balance, output_balance |-> {},
                               previous_topoheight |-> {topo.value}], topo.rest)
              ELSE the({IF ~output.ok THEN ReadErr(output.rest)
                        ELSE ReadOk([final_balance |-> final_balance,
                                     output_balance |-> {output.value},
                                     previous_topoheight |-> {topo.value}], output.rest) :
                        output \in {Ciphertext_read(topo.rest)}}) :
              topo \in {read_u64(bytes)}})

\* impl Serializer for VersionedBalance: read
VersionedBalance_read(bytes) ==
    the({IF ~final.ok THEN ReadErr(final.rest)
         ELSE VersionedBalance_read_rest(final.value, final.rest) :
         final \in {Ciphertext_read(bytes)}})

\* What is on the wire or in the store: the value last written, its bytes and
\* what the read of the bytes returned.
NoWire == [type |-> "none", value |-> << >>, bytes |-> << >>, read |-> FALSE,
           decoded |-> ReadErr(<< >>)]

Written(type, value, bytes) ==
    [type |-> type, value |-> value, bytes |-> bytes, read |-> FALSE,
     decoded |-> ReadErr(<< >>)]

\* A versioned balance is written.
WriteVersionedBalance(v) ==
    /\ wire' = Written("VersionedBalance", v, VersionedBalance_write(v))
    /\ UNCHANGED <<valVars, syncVars, reqVars, rpcVars, pingVars, diffVars, chainVars>>

\* The versioned balance written last is read.
ReadVersionedBalance ==
    /\ wire.type = "VersionedBalance" /\ ~wire.read
    /\ wire' = [wire EXCEPT !.read = TRUE, !.decoded = VersionedBalance_read(wire.bytes)]
    /\ UNCHANGED <<valVars, syncVars, reqVars, rpcVars, pingVars, diffVars, chainVars>>

\* ------------------------------------------------------------------ packets

HANDSHAKE_ID == 0

TX_ID == 1

BLOCK_ID == 2

REQUEST_CHAIN_ID == 3

PING_ID == 4

\* packet.rs
REQUEST_BLOCK_ID == 3

\* impl Serializer for Ping: to_bytes
Ping_to_bytes_height_first(ping) ==
    to_be_bytes(ping.block_height, U64_SIZE) \o ping.block_top_hash

Ping_to_bytes(ping) ==
    ping.block_top_hash \o to_be_bytes(ping.block_height, U64_SIZE)

\* impl Serializer for Ping: from_bytes
Ping_from_bytes(bytes) ==
    the({IF ~block_top_hash.ok THEN ReadErr(block_top_hash.rest)
         ELSE the({IF ~block_height.ok THEN ReadErr(block_height.rest)
                   ELSE ReadOk([block_top_hash |-> block_top_hash.value,
                                block_height |-> block_height.value],
                               block_height.rest) :
                   block_height \in {read_u64(block_top_hash.rest)}}) :
         block_top_hash \in {read_hash(bytes)}})

\* to_bytes and from_bytes of Handshake, Transaction, CompleteBlock and
\* RequestChain: the value is held as the bytes its to_bytes writes, which
\* its from_bytes reads back to the end.
Body_to_bytes(body) == body

Body_from_bytes(bytes) == ReadOk(bytes, << >>)

\* The tag and the payload of a packet.
packet_id(packet) ==
    CASE packet.variant = "Handshake" -> HANDSHAKE_ID
      [] packet.variant = "Transaction" -> TX_ID
      [] packet.variant = "Block" -> BLOCK_ID
      [] packet.variant = "RequestChain" -> REQUEST_CHAIN_ID
      [] packet.variant = "Ping" -> PING_ID

packet_payload(packet) ==
    IF packet.variant = "Ping" THEN Ping_to_bytes(packet.body)
    ELSE Body_to_bytes(packet.body)

\* packet.len() as u32, without the tag byte.
packet_len_without_tag(packet) == from_u64(Len(packet))

\* packet.len() as u32 + 1
packet_len(packet) == from_u64(Len(packet) + 1)

\* The frame: length, tag, payload.
frame(id, packet) == to_be_bytes(packet_len(packet), 4) \o <<id>> \o packet

\* impl Serializer for PacketOut: to_bytes (packet/mod.rs)
PacketOut_to_bytes(packet) == frame(packet_id(packet), packet_payload(packet))

\* impl Serializer for PacketOut: to_bytes of RequestBlock(height) (packet.rs)
RequestBlock_to_bytes(height) == frame(REQUEST_BLOCK_ID, to_be_bytes(height, U64_SIZE))

\* The packet read after the tag: its variant and the read of its body.
PacketRead(variant, body) ==
    IF ~body.ok THEN ReadErr(body.rest)
    ELSE ReadOk([variant |-> variant, body |-> body.value], body.rest)

\* impl Serializer for PacketIn: from_bytes (packet/mod.rs)
PacketIn_from_bytes(bytes) ==
    the({IF ~id.ok THEN ReadErr(id.rest)
         ELSE IF id.value = HANDSHAKE_ID
             THEN PacketRead("Handshake", Body_from_bytes(id.rest))
         ELSE IF id.value = TX_ID
             THEN PacketRead("Transaction", Body_from_bytes(id.rest))
         ELSE IF id.value = BLOCK_ID
             THEN PacketRead("Block", Body_from_bytes(id.rest))
         ELSE IF id.value = REQUEST_CHAIN_ID
             THEN PacketRead("RequestChain", Body_from_bytes(id.rest))
         ELSE IF id.value = PING_ID
             THEN PacketRead("Ping", Ping_from_bytes(id.rest))
         ELSE ReadErr(id.rest) :
         id \in {read_u8(bytes)}})

\* impl Serializer for PacketIn: from_bytes (packet.rs), the RequestBlock arm
RequestBlock_from_bytes(bytes) ==
    the({IF ~id.ok THEN ReadErr(id.rest)
         ELSE IF id.value = REQUEST_BLOCK_ID
             THEN PacketRead("RequestBlock", read_u64(id.rest))
         ELSE ReadErr(id.rest) :
         id \in {read_u8(bytes)}})

\* Block hashes and heights a Ping carries, bodies of the other packets.
PingHashes == {pattern(HASH_SIZE, 0, 0), pattern(HASH_SIZE, 250, 1)}

\* The last is u64::MAX.
PingHeights ==
    {from_u64(0), from_u64(MaxTopoheight), from_u64(MaxTopoheight * LimbBase + 1),
     pattern(U64_SIZE, LimbBase - 1, 0)}

Bodies == {<< >>, <<PING_ID>>, pattern(MaxBody, 1, 1)}

Packets ==
    [variant : {"Handshake", "Transaction", "Block", "RequestChain"}, body : Bodies]
        \cup [variant : {"Ping"},
              body : [block_top_hash : PingHashes, block_height : PingHeights]]

\* A packet is sent: its frame is on the wire.
SendPacket(packet) ==
    /\ wire' = Written("Packet", packet, PacketOut_to_bytes(packet))
    /\ UNCHANGED <<valVars, syncVars, reqVars, rpcVars, pingVars, diffVars, chainVars>>

SendRequestBlock(height) ==
    /\ wire' = Written("RequestBlock", [variant |-> "RequestBlock", body |-> height],
                       RequestBlock_to_bytes(height))
    /\ UNCHANGED <<valVars, syncVars, reqVars, rpcVars, pingVars, diffVars, chainVars>>

\* The body of the frame on the wire: the connection reads the length of four
\* bytes and then that many bytes.
frame_len(bytes) == to_u64(from_be_bytes(SubSeq(bytes, 1, 4)))

frame_body(bytes) == SubSeq(bytes, 5, 4 + frame_len(bytes))

\* The frame on the wire is received whole and the packet is read from its
\* body.
ReceivePacket ==
    /\ wire.type \in {"Packet", "RequestBlock"} /\ ~wire.read
    /\ Len(wire.bytes) >= 4 + frame_len(wire.bytes)
    /\ wire' = [wire EXCEPT
                   !.read = TRUE,
                   !.decoded = IF wire.type = "Packet"
                               THEN PacketIn_from_bytes(frame_body(wire.bytes))
                               ELSE RequestBlock_from_bytes(frame_body(wire.bytes))]
    /\ UNCHANGED <<valVars, syncVars, reqVars, rpcVars, pingVars, diffVars, chainVars>>

\* ------------------------------------------------------- keys and addresses

KEY_LENGTH == 32

SIGNATURE_LENGTH == 64

PREFIX_ADDRESS == "xel"

TESTNET_PREFIX_ADDRESS == "xet"

\* Public keys, as their 32 bytes.
Keys ==
    {pattern(KEY_LENGTH, 0, 0), pattern(KEY_LENGTH, LimbBase - 1, 0),
     pattern(KEY_LENGTH, 1, 7), pattern(KEY_LENGTH, 128, 37)}

\* A key pair is named by its public key.
KeyPairs == {[public_key |-> k, private_key |-> reverse(k)] : k \in Keys}

\* KeyPair::sign: the signature of the pair on the data.  A signature tells
\* who signed what and nothing else.
sign(pair, data) == [signer |-> pair.public_key, data |-> data]

\* PublicKey::verify_signature
verify_signature(public_key, hash, signature) ==
    signature.signer = public_key /\ signature.data = hash

\* Bit j of the values of data, each from bits wide, highest bit first; 0
\* beyond the last value.
bit_at(data, from, j) ==
    IF j > Len(data) * from THEN 0
    ELSE (data[((j - 1) \div from) + 1] \div (2 ^ (from - 1 - ((j - 1) % from)))) % 2

\* The number that the n bits from bit start on spell.
RECURSIVE bits_value(_, _, _, _)
bits_value(data, from, start, n) ==
    IF n = 0 THEN 0
    ELSE 2 * bits_value(data, from, start, n - 1) + bit_at(data, from, start + n - 1)

ConvertOk(value) == [ok |-> TRUE, value |-> value]

ConvertErr == [ok |-> FALSE, value |-> << >>]

\* bech32::convert_bits(data, from, to, pad): the bits of data regrouped in
\* values of `to` bits.  With pad the bits left over are filled up with zero
\* bits to one more value; without it they must be fewer than `from` and all
\* zero.
convert_bits(data, from, to, pad) ==
    IF \E i \in 1..Len(data) : data[i] >= 2 ^ from THEN ConvertErr
    ELSE the(UNION {{
             IF pad
                 THEN ConvertOk([g \in 1..(whole + (IF left > 0 THEN 1 ELSE 0)) |->
                                    bits_value(data, from, (g - 1) * to + 1, to)])
             ELSE IF left >= from \/ bits_value(data, from, whole * to + 1, left) # 0
                 THEN ConvertErr
             ELSE ConvertOk([g \in 1..whole |->
                                bits_value(data, from, (g - 1) * to + 1, to)]) :
             left \in {(Len(data) * from) % to}} :
             whole \in {(Len(data) * from) \div to}})

\* The checksum of a bech32 string: it binds the prefix and the data.
checksum(hrp, data) == <<hrp, data>>

\* bech32::encode: the address of a prefix and 5-bit values.
encode(hrp, data) ==
    IF hrp = "" \/ \E i \in 1..Len(data) : data[i] >= 32 THEN ConvertErr
    ELSE ConvertOk([hrp |-> hrp, data |-> data, checksum |-> checksum(hrp, data)])

\* bech32::decode: the prefix and the 5-bit values of an address whose
\* checksum is right.
decode(address) ==
    IF address.checksum # checksum(address.hrp, address.data)
        THEN [ok |-> FALSE, hrp |-> "", data |-> << >>]
    ELSE [ok |-> TRUE, hrp |-> address.hrp, data |-> address.data]

\* PublicKey::to_address
to_address(key) ==
    the({IF ~bits.ok THEN ConvertErr ELSE encode(PREFIX_ADDRESS, bits.value) :
         bits \in {convert_bits(key, 8, 5, TRUE)}})

KeyOk(key) == [ok |-> TRUE, value |-> key, error |-> ""]

KeyErr(error) == [ok |-> FALSE, value |-> << >>, error |-> error]

\* ed25519_dalek::PublicKey::from_bytes, unwrapped: the bytes must be 32.
key_of_bits(bits) ==
    IF ~bits.ok \/ Len(bits.value) # KEY_LENGTH THEN KeyErr("panic")
    ELSE KeyOk(bits.value)

\* from_address with the 5-bit values converted back with padding.
from_address_padded(address) ==
    the({IF ~decoded.ok THEN KeyErr("ErrorOnBech32")
         ELSE IF decoded.hrp # PREFIX_ADDRESS THEN KeyErr("ErrorOnBech32")
         ELSE key_of_bits(convert_bits(decoded.data, 5, 8, TRUE)) :
         decoded \in {decode(address)}})

\* PublicKey::from_address
from_address(address) ==
    the({IF ~decoded.ok THEN KeyErr("ErrorOnBech32")
         ELSE IF decoded.hrp # PREFIX_ADDRESS THEN KeyErr("ErrorOnBech32")
         ELSE key_of_bits(convert_bits(decoded.data, 5, 8, FALSE)) :
         decoded \in {decode(address)}})

\* Addresses that to_address did not make: those of the test network, those
\* of the main network with their prefix replaced, and one of the main
\* network whose data is no key.
OtherAddresses ==
    {encode(TESTNET_PREFIX_ADDRESS, convert_bits(k, 8, 5, TRUE).value).value : k \in Keys}
        \cup {[to_address(k).value EXCEPT !.hrp = TESTNET_PREFIX_ADDRESS] : k \in Keys}
        \cup {encode(PREFIX_ADDRESS, <<1>>).value}

\* The address of a key is made.
ToAddress(key) ==
    /\ wire' = Written("Address", key, to_address(key).value)
    /\ UNCHANGED <<valVars, syncVars, reqVars, rpcVars, pingVars, diffVars, chainVars>>

\* An address comes from outside.
OtherAddress(address) ==
    /\ wire' = Written("OtherAddress", << >>, address)
    /\ UNCHANGED <<valVars, syncVars, reqVars, rpcVars, pingVars, diffVars, chainVars>>

\* The key of the address is taken.
FromAddress ==
    /\ wire.type \in {"Address", "OtherAddress"} /\ ~wire.read
    /\ wire' = [wire EXCEPT !.read = TRUE, !.decoded = from_address(wire.bytes)]
    /\ UNCHANGED <<valVars, syncVars, reqVars, rpcVars, pingVars, diffVars, chainVars>>

\* ------------------------------------------------------------- transactions

FEE_PER_KB == 1000

\* usize::to_be_bytes on a 64-bit target
USIZE_SIZE == 8

\* Strings, as their bytes.
Strings == {<< >>, <<97>>, <<97, 98>>}

Amounts == {from_u64(0), from_u64(1), from_u64(MaxTopoheight * LimbBase)}

\* The transfers of a Normal transaction.
Transfers == {[amount |-> a, to |-> k] : a \in Amounts, k \in {pattern(KEY_LENGTH, 1, 7)}}

\* The params of a SmartContract as the HashMap holds them: a set of entries
\* with distinct keys.
ParamMaps ==
    {{}, {[key |-> <<97>>, value |-> <<98>>]},
     {[key |-> <<98>>, value |-> << >>], [key |-> <<97>>, value |-> <<98>>]}}

\* `for (key, value) in &tx.params`: the entries of the map, each once, in an
\* order that depends on the hasher of the HashMap instance (RandomState,
\* seeded per instance) and not on its content alone.
iteration_orders(map) ==
    {p \in [1..Cardinality(map) -> map] : \A e \in map : \E i \in DOMAIN p : p[i] = e}

\* The HashMap whose iteration gives `params`.
params_map(params) == {params[i] : i \in DOMAIN params}

\* TransactionData.  The params of a SmartContract are held in the order in
\* which the HashMap hands them out.
TransactionDatas ==
    {[type |-> "Registration"]}
        \cup {[type |-> "Normal", txs |-> << >>]}
        \cup {[type |-> "Normal", txs |-> <<t>>] : t \in Transfers}
        \cup {[type |-> "Burn", amount |-> a] : a \in Amounts}
        \cup {[type |-> "Coinbase", amount |-> a] : a \in Amounts}
        \cup {[type |-> "UploadSmartContract", code |-> c] : c \in Strings}
        \cup {[type |-> "SmartContract", contract |-> <<97>>, amount |-> from_u64(1),
               params |-> p] :
              p \in UNION {iteration_orders(map) : map \in ParamMaps}}

RECURSIVE concat(_)
concat(seqs) == IF seqs = << >> THEN << >> ELSE Head(seqs) \o concat(Tail(seqs))

\* impl Hashable for TransactionData: to_bytes
TransactionData_to_bytes(data) ==
    CASE data.type = "Burn" -> <<0>> \o to_be_bytes(data.amount, U64_SIZE)
      [] data.type = "Normal" ->
            <<1>> \o to_be_bytes(from_u64(Len(data.txs)), USIZE_SIZE)
                \o concat([i \in 1..Len(data.txs) |->
                              to_be_bytes(data.txs[i].amount, U64_SIZE) \o data.txs[i].to])
      [] data.type = "Registration" -> <<2>>
      [] data.type = "SmartContract" ->
            <<3>> \o data.contract \o to_be_bytes(data.amount, U64_SIZE)
                \o to_be_bytes(from_u64(Len(data.params)), USIZE_SIZE)
                \o concat([i \in 1..Len(data.params) |->
                              data.params[i].key \o data.params[i].value])
      [] data.type = "Coinbase" -> <<4>> \o to_be_bytes(data.amount, U64_SIZE)
      [] data.type = "UploadSmartContract" -> <<5>> \o data.code

\* Signature::to_bytes
Signature_to_bytes(signature) == signature.signer \o signature.signer

\* to_bytes with the signature added at its end.
Transaction_to_bytes_with_signature(tx) ==
    to_be_bytes(tx.nonce, U64_SIZE) \o TransactionData_to_bytes(tx.data)
        \o tx.sender \o to_be_bytes(tx.fee, U64_SIZE)
        \o (IF tx.signature = {} THEN << >> ELSE Signature_to_bytes(the(tx.signature)))

\* impl Hashable for Transaction: to_bytes
Transaction_to_bytes(tx) ==
    to_be_bytes(tx.nonce, U64_SIZE) \o TransactionData_to_bytes(tx.data)
        \o tx.sender \o to_be_bytes(tx.fee, U64_SIZE)

\* impl Hashable for Transaction: size
Transaction_size(tx) ==
    Len(Transaction_to_bytes(tx)) + (IF tx.signature = {} THEN 0 ELSE SIGNATURE_LENGTH)

\* Hashable::hash: the hash of to_bytes.  Two hashes are equal when the bytes
\* hashed are.
hash_of(bytes) == [hash |-> bytes]

Transaction_hash(tx) == hash_of(Transaction_to_bytes(tx))

\* blockchain::calculate_tx_fee: FEE_PER_KB for every 1024 bytes begun.
calculate_tx_fee(size) == from_u64(((size + 1023) \div 1024) * FEE_PER_KB)

\* Transaction::new
Transaction_new(nonce, data, sender) ==
    the({[tx EXCEPT !.fee = IF data.type \in {"Registration", "Coinbase"} THEN from_u64(0)
                             ELSE calculate_tx_fee(Transaction_size(tx))] :
         tx \in {[nonce |-> nonce, data |-> data, sender |-> sender, fee |-> from_u64(0),
                  signature |-> {}]}})

\* Transaction::sign_transaction
sign_transaction(tx, pair) ==
    [tx EXCEPT !.signature = {sign(pair, Transaction_hash(tx))}]

Nonces == {from_u64(0), from_u64(MaxTopoheight)}

\* A transaction is built.
NewTransaction(nonce, data, sender) ==
    /\ wire' = the({Written("Transaction", tx, Transaction_to_bytes(tx)) :
                    tx \in {Transaction_new(nonce, data, sender)}})
    /\ UNCHANGED <<valVars, syncVars, reqVars, rpcVars, pingVars, diffVars, chainVars>>

\* The transaction is signed, for the first time or again.
SignTransaction(pair) ==
    /\ wire.type = "Transaction"
    /\ wire' = the({[wire EXCEPT !.value = tx, !.bytes = Transaction_to_bytes(tx)] :
                    tx \in {sign_transaction(wire.value, pair)}})
    /\ UNCHANGED <<valVars, syncVars, reqVars, rpcVars, pingVars, diffVars, chainVars>>

\* -------------------------------------------------------------- rpc server

\* Websocket clients connected at most.
MaxClients == 2

\* Addr<WebSocketHandler>: the address of a client's actor.
Addrs == 1..MaxClients

\* The event types E of the server.
EventTypes == {"NewBlock", "TransactionAddedInMempool"}

\* The id: Option<usize> of a subscription request.
RequestIds == {{}, {1}}

NoRpc == [op |-> "none", addr |-> 0, event |-> "", id |-> {}, res |-> "", sent |-> {}]

\* HashMap::new()
NoSubscriptions == [e \in {} |-> {}]

\* RpcServer::add_client: the client is inserted with no subscription.
add_client(cs, addr) ==
    [a \in DOMAIN cs \cup {addr} |-> IF a = addr THEN NoSubscriptions ELSE cs[a]]

\* RpcServer::remove_client
remove_client(cs, addr) == [a \in DOMAIN cs \ {addr} |-> cs[a]]

\* RpcServer::subscribe_client_to
subscribe_client_to(cs, addr, event_type, id) ==
    IF addr \notin DOMAIN cs
    THEN [res |-> "ClientNotFound", clients |-> cs]
    ELSE [res |-> "Ok",
          clients |-> [cs EXCEPT ![addr] =
                          [e \in DOMAIN cs[addr] \cup {event_type} |->
                              IF e = event_type THEN id ELSE cs[addr][e]]]]

\* RpcServer::unsubscribe_client_from
unsubscribe_client_from(cs, addr, event_type) ==
    IF addr \notin DOMAIN cs
    THEN [res |-> "ClientNotFound", clients |-> cs]
    ELSE [res |-> "Ok",
          clients |-> [cs EXCEPT ![addr] =
                          [e \in DOMAIN cs[addr] \ {event_type} |-> cs[addr][e]]]]

\* The message a spawned task sends to the client at `addr`: the JSON-RPC
\* envelope with the subscription's id around the EventResult.
WSResponse(addr, id, event_type) == [addr |-> addr, id |-> id, event |-> event_type]

\* RpcServer::notify_clients that sends to every registered client.
notify_clients_all(cs, event_type) ==
    {WSResponse(addr, IF event_type \in DOMAIN cs[addr] THEN cs[addr][event_type] ELSE {},
                event_type) : addr \in DOMAIN cs}

\* The loop of notify_clients over the clients still to visit.
RECURSIVE notify_loop(_, _, _)
notify_loop(cs, rest, event_type) ==
    IF rest = {}
    THEN {}
    ELSE LET addr == CHOOSE a \in rest : TRUE
             subs == cs[addr]
         IN  (IF event_type \in DOMAIN subs
              THEN {WSResponse(addr, subs[event_type], event_type)}
              ELSE {})
                 \cup notify_loop(cs, rest \ {addr}, event_type)

\* RpcServer::notify_clients: the messages of the tasks it spawns.
notify_clients(cs, event_type) == notify_loop(cs, DOMAIN cs, event_type)

\* A websocket connection is opened: websocket() calls add_client.
AddClient(addr) ==
    /\ clients' = add_client(clients, addr)
    /\ rpc' = [NoRpc EXCEPT !.op = "add_client", !.addr = addr]
    /\ UNCHANGED <<valVars, syncVars, reqVars, pingVars, diffVars, chainVars, codecVars>>

\* The connection of a client ends.
RemoveClient(addr) ==
    /\ clients' = remove_client(clients, addr)
    /\ rpc' = [NoRpc EXCEPT !.op = "remove_client", !.addr = addr]
    /\ UNCHANGED <<valVars, syncVars, reqVars, pingVars, diffVars, chainVars, codecVars>>

SubscribeClientTo(addr, event_type, id) ==
    /\ LET r == subscribe_client_to(clients, addr, event_type, id)
       IN  /\ clients' = r.clients
           /\ rpc' = [NoRpc EXCEPT !.op = "subscribe_client_to", !.addr = addr,
                                   !.event = event_type, !.id = id, !.res = r.res]
    /\ UNCHANGED <<valVars, syncVars, reqVars, pingVars, diffVars, chainVars, codecVars>>

UnsubscribeClientFrom(addr, event_type) ==
    /\ LET r == unsubscribe_client_from(clients, addr, event_type)
       IN  /\ clients' = r.clients
           /\ rpc' = [NoRpc EXCEPT !.op = "unsubscribe_client_from", !.addr = addr,
                                   !.event = event_type, !.res = r.res]
    /\ UNCHANGED <<valVars, syncVars, reqVars, pingVars, diffVars, chainVars, codecVars>>

NotifyClients(event_type) ==
    /\ rpc' = [NoRpc EXCEPT !.op = "notify_clients", !.event = event_type, !.res = "Ok",
                            !.sent = notify_clients(clients, event_type)]
    /\ UNCHANGED clients
    /\ UNCHANGED <<valVars, syncVars, reqVars, pingVars, diffVars, chainVars, codecVars>>

\* ---------------------------------------------------------- specifications

Init ==
    /\ storage = GenesisStorage
    /\ validator = NewValidator
    /\ call = NoCall
    /\ sync = NoSync
    /\ fail_count = 0
    /\ peer_list = TRUE
    /\ connection = TRUE
    /\ objects_requested = << >>
    /\ objects_lock = 0
    /\ task = [t \in Tasks |-> NoTask]
    /\ chan = [c \in CallIds |-> "none"]
    /\ ncalls = 0
    /\ sent = 0
    /\ ret = NoReturn
    /\ handler = NoResponse
    /\ peer_tip = [block_top_hash |-> GenesisHash, block_height |-> 0]
    /\ last_ping = NoPing
    /\ tip_origin = written_by([block_top_hash |-> GenesisHash, block_height |-> 0])
    /\ kalman = NoFilterCall
    /\ top_block = GenesisTip
    /\ minted = 0
    /\ was_stable = << >>
    /\ ledger = GenesisLedger
    /\ chain_call = NoChainCall
    /\ wire = NoWire
    /\ clients = << >>
    /\ rpc = NoRpc

\* The validator is called by one task: a call is made when the previous one
\* has returned.
Ready == call.op = "none"

NextValidator ==
    \/ Ready /\ \E hash \in Hashes, header \in Headers, io \in IoFaults :
                    InsertBlock(hash, header, io)
    \/ Ready /\ GetOrder
    \/ Ready /\ \E hash \in Hashes : ConsumeBlockHeader(hash)
    \/ Return
    \/ Ready /\ \E tips \in AcceptTips : AcceptBlock(tips)

SpecValidator == Init /\ [][NextValidator]_vars

NextSync ==
    \/ \E response \in ChainResponses : ChainResponse(response)
    \/ \E io \in IoFaults : SyncInsert(io)
    \/ SyncCommit

SpecSync == Init /\ [][NextSync]_vars

NextPeer ==
    \/ \E t \in Tasks, request \in ObjectRequests : ReqLock(t, request)
    \/ \E t \in Tasks : ReqSend(t)
    \/ \E t \in Tasks : ReqInsert(t)
    \/ \E t \in Tasks : RecvOk(t)
    \/ \E t \in Tasks : RecvDropped(t)
    \/ \E t \in Tasks : TimerFire(t)
    \/ \E t \in Tasks : Cleanup(t)
    \/ \E request \in ObjectRequests : ObjectResponse(request)
    \/ HandlerSend
    \/ PeerClose

SpecPeer == Init /\ [][NextPeer]_vars

NextPing ==
    \/ \E hash \in Hashes, height \in Heights : PingReceived(hash, height)
    \/ \E hash \in Hashes, height \in Heights : SetPeerTip(hash, height)

SpecPing == Init /\ [][NextPing]_vars

\* Peer::increment_fail_count called by any task that holds the peer: the
\* fetch_add is one atomic read-modify-write.
IncrementFailCount ==
    /\ fail_count' = increment_fail_count(fail_count)
    /\ UNCHANGED <<sync, peer_list, connection, valVars, reqVars, extVars>>

NextFailCount == IncrementFailCount

SpecFailCount == Init /\ [][NextFailCount]_vars

NextRpc ==
    \/ \E addr \in Addrs : AddClient(addr)
    \/ \E addr \in Addrs : RemoveClient(addr)
    \/ \E addr \in Addrs, event_type \in EventTypes, id \in RequestIds :
           SubscribeClientTo(addr, event_type, id)
    \/ \E addr \in Addrs, event_type \in EventTypes :
           UnsubscribeClientFrom(addr, event_type)
    \/ \E event_type \in EventTypes : NotifyClients(event_type)

SpecRpc == Init /\ [][NextRpc]_vars

NextKalman ==
    \E z \in Observations, x_est_prev \in Estimates \cup {to_u64(kalman.x_est_new)} :
        KalmanFilter(z, x_est_prev)

SpecKalman == Init /\ [][NextKalman]_vars

NextDifficulty ==
    \E solve_time \in SolveTimes : top_block.blocks < MaxBlocks /\ NextBlock(solve_time)

SpecDifficulty == Init /\ [][NextDifficulty]_vars

\* The blocks of a chain follow one another at the solve time of the first.
NextSurge ==
    \E solve_time \in SurgeTimes :
        /\ top_block.blocks < MaxSurgeBlocks
        /\ top_block.blocks > 0 => solve_time = top_block.solve_time
        /\ NextBlock(solve_time)

SpecSurge == Init /\ [][NextSurge]_vars

NextChain ==
    \/ AddNewBlock
    \/ \E count \in 1..MaxRewind : RewindChain(count)

SpecChain == Init /\ [][NextChain]_vars

\* Blocks with transactions are committed on the last blocks of the order,
\* the chain is rewound and the blocks a rewind removed are committed again.
NextLedger ==
    \/ \E hash \in NewHashes(storage), tips \in NewTips(storage), txs \in NewTxs :
           CommitBlock(hash, tips, txs)
    \/ \E count \in 1..MaxLedgerBlocks : RewindChain(count)
    \/ Recommit

SpecLedger == Init /\ [][NextLedger]_vars

\* Blocks with transactions are committed on the top block, the chain is
\* rewound and snapshots of the balances and nonces are made.
NextSnapshot ==
    \/ \E hash \in NewHashes(storage), txs \in NewTxs :
           CommitBlock(hash, <<storage.topo[Len(storage.topo)]>>, txs)
    \/ \E count \in 1..MaxLedgerBlocks : RewindChain(count)
    \/ \E topoheight \in 1..MaxLedgerBlocks : Snapshot(topoheight)

SpecSnapshot == Init /\ [][NextSnapshot]_vars

\* Values are serialized and the bytes are read back.
NextCodec ==
    \/ \E v \in VersionedBalances : WriteVersionedBalance(v)
    \/ ReadVersionedBalance
    \/ \E packet \in Packets : SendPacket(packet)
    \/ \E height \in PingHeights : SendRequestBlock(height)
    \/ ReceivePacket
    \/ \E nonce \in Nonces, data \in TransactionDatas, sender \in Keys :
           NewTransaction(nonce, data, sender)
    \/ \E pair \in KeyPairs : SignTransaction(pair)
    \/ \E key \in Keys : ToAddress(key)
    \/ \E address \in OtherAddresses : OtherAddress(address)
    \/ FromAddress

SpecCodec == Init /\ [][NextCodec]_vars

\* ------------------------------------------------------------------ claims

Distinct(tips) == Cardinality(Range(tips)) = Len(tips)

\* An insert_block call has just been made from a validator that was idle.
InsertStep == call.op = "none" /\ call'.op = "insert_block"

\* C1: a header that passes every check and whose tips are held only in the
\* main store is accepted by insert_block (its PoW is verified against the
\* store's data for those tips), and a sync of the 5 valid headers of a peer
\* at height 5 over our genesis ends with top_height = 5, top_topoheight = 5.
C1_StoreTipsAccepted ==
    ( /\ call.op = "insert_block"
      /\ call.io = 0
      /\ ~has_block(storage, call.hash)
      /\ Len(call.header.tips) \in 1..TIPS_LIMIT
      /\ Distinct(call.header.tips)
      /\ \A t \in Range(call.header.tips) : has_block(storage, t)
      /\ verify_proof_of_work(StorageProvider(storage), call.header.pow,
                              call.header.tips).ok )
    => call.res = "Ok"

C1_HappyPath ==
    ( /\ sync.pc = "idle"
      /\ sync.response = LinearChain(5, [i \in 1..5 |-> 1])
      /\ sync.base = GenesisStorage
      /\ sync.res # "StorageError" )
    => /\ sync.res = "Ok"
       /\ storage.top_height = 5
       /\ storage.top_topoheight = 5

C1_StoreTipsAcceptedAndHappyPath == C1_StoreTipsAccepted /\ C1_HappyPath

C3_ValidatorIsSandbox ==
    [][(call.op = "none" /\ call'.op # "none") => storage' = storage]_vars

C3_Witness ==
    /\ call.op = "insert_block"
    /\ call.res = "BlockNotFound"
    /\ storage.top_topoheight = 2
    /\ call.header.tips = <<1, 2>>

\* C4: insert_block of a hash held by the validator or (the lookup answering)
\* by the main store returns AlreadyInChain and leaves the validator as it
\* was; an accepted hash was held by neither, and the order list never holds
\* a hash twice.
C4_AlreadyInChain ==
    [][InsertStep =>
        /\ ( \/ call'.hash \in DOMAIN validator.blocks
             \/ (call'.io # 1 /\ has_block(storage, call'.hash)) )
           => (call'.res = "AlreadyInChain" /\ validator' = validator)
        /\ call'.res = "Ok"
           => /\ call'.hash \notin DOMAIN validator.blocks
              /\ ~has_block(storage, call'.hash)
        /\ Distinct(validator'.order)]_vars

C4_Witness ==
    /\ call.op = "insert_block"
    /\ call.res = "AlreadyInChain"
    /\ call.hash = 2
    /\ Len(call.header.tips) = 1

\* The tips of a header break a rule of insert_block: none or more than
\* TIPS_LIMIT, a repeated tip, or a tip held neither by validator v nor by
\* store s.
BadTips(v, s, tips) ==
    \/ Len(tips) = 0
    \/ Len(tips) > TIPS_LIMIT
    \/ ~Distinct(tips)
    \/ \E t \in Range(tips) : t \notin DOMAIN v.blocks /\ ~has_block(s, t)

\* Every header held by the validator has 1..TIPS_LIMIT pairwise distinct tips.
HeldTipsWellFormed(v) ==
    \A h \in DOMAIN v.blocks :
        /\ Len(v.blocks[h].header.tips) \in 1..TIPS_LIMIT
        /\ Distinct(v.blocks[h].header.tips)

\* C5 as claimed: every held header has 1..TIPS_LIMIT distinct tips that were
\* held by validator or store at insertion, and ANY header breaking a tips
\* rule is rejected with InvalidTips.
C5_BadTipsAlwaysInvalidTips ==
    [][InsertStep =>
        /\ HeldTipsWellFormed(validator')
        /\ BadTips(validator, storage, call'.header.tips)
           => call'.res = "InvalidTips"]_vars

\* C5 amended: every held header has 1..TIPS_LIMIT distinct tips that were
\* held by validator or store at insertion; a header breaking a tips rule is
\* never accepted, and it is rejected with InvalidTips when its hash is not
\* already held by validator or store and no storage lookup fails; a hash
\* already held is rejected with AlreadyInChain first.
C5_BadTipsRejected ==
    [][InsertStep =>
        /\ HeldTipsWellFormed(validator')
        /\ BadTips(validator, storage, call'.header.tips)
           => /\ call'.res \in {"InvalidTips", "AlreadyInChain", "StorageError"}
              /\ validator' = validator
              /\ ( /\ call'.hash \notin DOMAIN validator.blocks
                   /\ ~has_block(storage, call'.hash)
                   /\ call'.io = 0 )
                 => call'.res = "InvalidTips"
              /\ ( /\ call'.io = 0
                   /\ \/ call'.hash \in DOMAIN validator.blocks
                      \/ has_block(storage, call'.hash) )
                 => call'.res = "AlreadyInChain"]_vars

C5_Witness ==
    /\ call.op = "insert_block"
    /\ call.res = "InvalidTips"
    /\ call.header.tips = <<0, 1, 0>>
    /\ has_block(storage, 1)
    /\ call.hash = 3


\* A call of request_blocking_object has just returned.
Returned == ret' # ret

\* C7: a call of request_blocking_object for a key that has an entry in the
\* map returns ObjectAlreadyRequested at once, sends no packet and leaves the
\* map (and so the sender registered by the first caller) as it was.
C7_DuplicateRejected ==
    [][\A t \in Tasks :
        ( /\ ncalls' = ncalls + 1
          /\ \/ task'[t].id = ncalls'
             \/ (Returned /\ ret'.task = t)
          /\ (IF Returned THEN ret'.request ELSE task'[t].request)
                 \in DOMAIN objects_requested )
        => /\ Returned
           /\ ret'.res = "ObjectAlreadyRequested"
           /\ sent' = sent
           /\ objects_requested' = objects_requested
           /\ chan' = chan
           /\ task' = task]_vars

C7_Witness ==
    /\ task[1].pc = "waiting"
    /\ task[1].request = 2
    /\ objects_requested[2] = task[1].id
    /\ chan[task[1].id] = "open"
    /\ ret.task = 2
    /\ ret.request = 2
    /\ ret.res = "ObjectAlreadyRequested"
    /\ ret.id > task[1].id
    /\ sent = 1

\* C8: a call that registered its request and to which no response is
\* delivered returns the timeout error, and when it returns the map holds no
\* entry for its key.
C8_NoResponseIsTimeout ==
    [][\A t \in Tasks :
        ( /\ task[t].pc \in {"waiting", "timedout"}
          /\ Returned
          /\ ret'.task = t
          /\ ret'.res # "Ok" )
        => /\ ret'.res = "AsyncTimeOut"
           /\ ret'.request \notin DOMAIN objects_requested']_vars

\* C9: a response for a key with no entry in the map is ignored:
\* remove_object_request returns ObjectNotFound, the map is unchanged, and
\* neither that step nor the rest of its handling puts anything into a
\* channel or changes a caller.
C9_UnknownReplyIgnored ==
    [][/\ ( /\ handler.pc = "idle"
            /\ handler'.pc = "removed"
            /\ handler'.request \notin DOMAIN objects_requested )
          => /\ handler'.res = "ObjectNotFound"
             /\ objects_requested' = objects_requested
             /\ chan' = chan
             /\ task' = task
             /\ ret' = ret
       /\ ( /\ handler.pc = "removed"
            /\ handler.res = "ObjectNotFound"
            /\ handler'.pc = "idle" )
          => /\ objects_requested' = objects_requested
             /\ chan' = chan
             /\ task' = task
             /\ ret' = ret]_vars

C9_Witness ==
    /\ handler.pc = "removed"
    /\ handler.res = "ObjectNotFound"
    /\ handler.request = 1
    /\ ret = [task |-> 1, request |-> 1, id |-> 1, res |-> "AsyncTimeOut"]
    /\ task[2].pc = "waiting"
    /\ task[2].request = 2
    /\ chan[task[2].id] = "open"

\* C10: every entry of the map was stored by a call that has not returned
\* yet: a call that returned, however it did, left no entry of its own.
C10_NoEntryOfReturnedCall ==
    /\ \A k \in DOMAIN objects_requested :
        \E t \in Tasks : /\ task[t].id = objects_requested[k]
                         /\ task[t].request = k
                         /\ task[t].pc \in {"waiting", "timedout"}
    /\ \A k \in DOMAIN objects_requested : objects_requested[k] # ret.id

C10_Witness ==
    /\ ret.res = "RecvError"
    /\ ret.id = 2
    /\ chan[1] = "closed"
    /\ \A t \in Tasks : task[t].pc = "idle"
    /\ objects_requested = << >>

\* C11: when close() runs on a peer with outstanding object requests, its
\* waiting callers are completed (none is left waiting), none of them is
\* later reported a timeout, and the map is empty.
C11_CloseCancelsRequests ==
    [][/\ (connection /\ ~connection')
          => /\ objects_requested' = << >>
             /\ \A t \in Tasks : task'[t].pc # "waiting"
       /\ \A t \in Tasks :
            (~connection /\ task[t].pc = "waiting") => task'[t].pc # "timedout"]_vars

C13_PingUpdatesTip ==
    [][last_ping'.seq = last_ping.seq + 1
       => /\ peer_tip'.block_top_hash = last_ping'.block_top_hash
          /\ peer_tip'.block_height = last_ping'.block_height]_vars

\* A call of kalman_filter has returned.
Filtered == kalman.calls > 0 /\ kalman.panic = ""

\* C14: with z = MINIMUM_DIFFICULTY / 1000, x_est_prev = 1 and p_prev = P,
\* kalman_filter returns (2, 4509399998), and on that result with
\* z = MINIMUM_DIFFICULTY / 2000 it returns (3, 4938139585).
C14_TestVector ==
    LET p1 == from_dec(<<4, 5, 0, 9, 3, 9, 9, 9, 9, 8>>)
        p2 == from_dec(<<4, 9, 3, 8, 1, 3, 9, 5, 8, 5>>)
    IN  /\ (/\ kalman.calls > 0
            /\ kalman.z = from_u64(MINIMUM_DIFFICULTY \div 1000)
            /\ kalman.x_est_prev = from_u64(1)
            /\ kalman.p_prev = P)
           => (kalman.panic = "" /\ kalman.x_est_new = from_u64(2) /\ kalman.p_new = p1)
        /\ (/\ kalman.calls > 0
            /\ kalman.z = from_u64(MINIMUM_DIFFICULTY \div 2000)
            /\ kalman.x_est_prev = from_u64(2)
            /\ kalman.p_prev = p1)
           => (kalman.panic = "" /\ kalman.x_est_new = from_u64(3) /\ kalman.p_new = p2)

\* The integer Kalman step on natural numbers, with the process noise
\* covariance noise_covar.
kalman_step(noise_covar, z, x_est_prev, p_prev) ==
    LET zs     == mul(z, LEFT_SHIFT)
        xs     == mul(x_est_prev, LEFT_SHIFT)
        p_pred == add(shift_down(mul(xs, noise_covar), 4), p_prev)
        k      == div(shift_up(p_pred, 4), add(p_pred, zs))
        toward == IF less(zs, xs)
                  THEN sub(xs, shift_down(mul(k, sub(xs, zs)), 4))
                  ELSE add(xs, shift_down(mul(k, sub(zs, xs)), 4))
    IN  <<shift_down(toward, 4), shift_down(mul(sub(LEFT_SHIFT, k), p_pred), 4)>>

BlockAdded == top_block'.blocks = top_block.blocks + 1

\* C16: a call of calculate_difficulty that returns gives a difficulty of at
\* least MINIMUM_DIFFICULTY: (MINIMUM_DIFFICULTY, P) when x_est_new *
\* BLOCK_TIME_MILLIS is below MINIMUM_DIFFICULTY, and (x_est_new *
\* BLOCK_TIME_MILLIS, p_new) otherwise.
C16_DifficultyFloor ==
    [][BlockAdded =>
        LET r == kalman_filter(
                     div(top_block.difficulty, from_u64(top_block'.solve_time)),
                     div(top_block.difficulty, from_u64(BLOCK_TIME_MILLIS)),
                     top_block.p)
            estimate == mul_u64(r.x_est_new, BLOCK_TIME_MILLIS)
        IN  /\ ~less(top_block'.difficulty, from_u64(MINIMUM_DIFFICULTY))
            /\ IF less(estimate, from_u64(MINIMUM_DIFFICULTY))
               THEN /\ top_block'.difficulty = from_u64(MINIMUM_DIFFICULTY)
                    /\ top_block'.p = P
               ELSE /\ top_block'.difficulty = estimate
                    /\ top_block'.p = r.p_new]_vars

\* A block later than the first has reset the difficulty to the minimum and
\* the covariance to P.
C16_Witness ==
    /\ top_block.blocks = 3 /\ top_block.solve_time = 2 * BLOCK_TIME_MILLIS
    /\ top_block.difficulty = from_u64(MINIMUM_DIFFICULTY)
    /\ top_block.p = P

\* C17: a block solved in BLOCK_TIME_MILLIS has a difficulty of at least
\* MINIMUM_DIFFICULTY, and from the second block on it has the difficulty of
\* its parent: with every solve time equal to BLOCK_TIME_MILLIS the
\* difficulty no longer changes after one block.
C17_SteadyDifficulty ==
    [][(BlockAdded /\ top_block'.solve_time = BLOCK_TIME_MILLIS) =>
        /\ ~less(top_block'.difficulty, from_u64(MINIMUM_DIFFICULTY))
        /\ top_block.blocks >= 1 => top_block'.difficulty = top_block.difficulty]_vars

\* A third block solved in BLOCK_TIME_MILLIS has kept a difficulty above the
\* minimum.
C17_Witness ==
    /\ top_block.blocks = 3 /\ top_block.solve_time = BLOCK_TIME_MILLIS
    /\ less(from_u64(MINIMUM_DIFFICULTY), top_block.difficulty)

\* C18: in every call of calculate_difficulty for a block whose timestamp is
\* at least that of its parent, solve_time is strictly positive and neither
\* the subtraction nor the division by solve_time fails.
C18_SolveTimePositive ==
    (top_block.blocks > 0 \/ top_block.panic # "") =>
        /\ top_block.solve_time > 0
        /\ top_block.at # "calculate_difficulty"

\* C19: along a chain of calculate_difficulty calls from the genesis block and
\* covariance P, no VarUint operation of kalman_filter overflows 256 bits,
\* underflows or divides by zero.
C19_NoKalmanPanic == top_block.at # "kalman_filter"

C21_RewindRecommitRestores ==
    /\ chain_call.op \in {"rewind", "recommit"} /\ chain_call.todo # << >> =>
           commit(storage, ledger, Head(chain_call.todo).hash,
                  Head(chain_call.todo).header, Head(chain_call.todo).txs).ok
    /\ chain_call.op = "recommit" /\ chain_call.todo = << >> =>
           <<storage, ledger>> = chain_call.before

\* Two blocks were removed by a rewind and committed again; one of them had
\* executed a transaction and the rewind had moved a head back.
C21_Witness ==
    /\ chain_call.op = "recommit" /\ chain_call.todo = << >>
    /\ chain_call.count = 2
    /\ ledger.tx_executed # << >>
    /\ \E c \in DOMAIN ledger.balance_head :
           ledger.balances[<<c[1], c[2], ledger.balance_head[c]>>].previous_topoheight # {}

\* C22: right after a rewind to topoheight T no balance or nonce version
\* above T is stored, every head is at most T, and a chain whose versions
\* were all above T has no head.
C22_RewindTruncatesChains ==
    chain_call.op = "rewind" /\ chain_call.res = "Ok" =>
        /\ \A v \in DOMAIN ledger.balances : v[3] <= storage.top_topoheight
        /\ \A v \in DOMAIN ledger.nonces : v[2] <= storage.top_topoheight
        /\ \A c \in DOMAIN ledger.balance_head :
               ledger.balance_head[c] <= storage.top_topoheight
        /\ \A key \in DOMAIN ledger.nonce_head :
               ledger.nonce_head[key] <= storage.top_topoheight
        /\ \A c \in DOMAIN chain_call.before[2].balance_head :
               (\A v \in DOMAIN chain_call.before[2].balances :
                    v[1] = c[1] /\ v[2] = c[2] => v[3] > storage.top_topoheight)
                   => c \notin DOMAIN ledger.balance_head
        /\ \A key \in DOMAIN chain_call.before[2].nonce_head :
               (\A v \in DOMAIN chain_call.before[2].nonces :
                    v[1] = key => v[2] > storage.top_topoheight)
                   => key \notin DOMAIN ledger.nonce_head

\* A rewind to topoheight 1 found a balance chain with versions at 1 and 2,
\* whose head is now 1, a balance chain with its only version at 2 and a
\* nonce chain with its only version at 2, which are gone.
C22_Witness ==
    /\ chain_call.op = "rewind" /\ chain_call.res = "Ok"
    /\ storage.top_topoheight = 1
    /\ \E c \in DOMAIN ledger.balance_head :
           /\ ledger.balance_head[c] = 1
           /\ chain_call.before[2].balance_head[c] = 2
    /\ \E c \in DOMAIN chain_call.before[2].balance_head :
           c \notin DOMAIN ledger.balance_head
    /\ \E key \in DOMAIN chain_call.before[2].nonce_head :
           key \notin DOMAIN ledger.nonce_head

versions_of(l, c) == {v[3] : v \in {x \in DOMAIN l.balances : x[1] = c[1] /\ x[2] = c[2]}}

\* Following previous_topoheight from the version of c at topoheight visits
\* stored versions at strictly decreasing topoheights and ends in None.
RECURSIVE chain_ends(_, _, _)
chain_ends(l, c, topoheight) ==
    /\ <<c[1], c[2], topoheight>> \in DOMAIN l.balances
    /\ \A prev \in l.balances[<<c[1], c[2], topoheight>>].previous_topoheight :
           prev < topoheight /\ chain_ends(l, c, prev)

\* C24: after any commits, rewinds and snapshots, every (account, asset)
\* pair with a stored balance version has a last-topoheight pointer, which is
\* the highest topoheight a version of the pair is stored at, and following
\* previous_topoheight from it goes strictly down and ends in None.
C24_HeadIsLastVersion ==
    \A c \in Accounts \X Assets :
        versions_of(ledger, c) # {} =>
            /\ c \in DOMAIN ledger.balance_head
            /\ ledger.balance_head[c] \in versions_of(ledger, c)
            /\ \A t \in versions_of(ledger, c) : t <= ledger.balance_head[c]
            /\ chain_ends(ledger, c, ledger.balance_head[c])

\* After a snapshot a pair has a chain of two versions, and another pair
\* has its last version at the topoheight of the snapshot, above the block
\* that wrote it.
C24_Witness ==
    /\ ledger.pruned_topoheight # {}
    /\ \E c \in DOMAIN ledger.balance_head :
           ledger.balances[<<c[1], c[2], ledger.balance_head[c]>>].previous_topoheight # {}
    /\ \E c \in DOMAIN ledger.balance_head :
           /\ ledger.balance_head[c] \in ledger.pruned_topoheight
           /\ versions_of(ledger, c) = ledger.pruned_topoheight
           /\ miner(storage.topo[ledger.balance_head[c] + 1]) # c[1]

\* The sum of f over S.
RECURSIVE sum(_, _)
sum(f, S) ==
    IF S = {} THEN 0
    ELSE the({f[x] + sum(f, S \ {x}) : x \in {CHOOSE y \in S : TRUE}})

\* The blocks of the order that carry tx.
blocks_of_tx(s, l, tx) == {h \in Range(s.topo) : tx \in Range(l.txs[h])}

\* The final balance of the pair c: that of its last version, 0 without one.
last_balance(l, c) ==
    IF c \notin DOMAIN l.balance_head THEN 0
    ELSE l.balances[<<c[1], c[2], l.balance_head[c]>>].final_balance

\* C25: a transaction carried by several blocks has its effects applied
\* once.  It is marked executed in one block, the first of the order that
\* carries it; the nonce of an account is the number of its transactions that
\* are marked, and its final balance is the rewards it mined plus the
\* amounts of the marked transactions to it minus those from it.
C25_ExecutedOnce ==
    /\ \A tx \in TxHashes :
           IF blocks_of_tx(storage, ledger, tx) = {} THEN tx \notin DOMAIN ledger.tx_executed
           ELSE /\ tx \in DOMAIN ledger.tx_executed
                /\ ledger.tx_executed[tx] \in blocks_of_tx(storage, ledger, tx)
                /\ \A h \in blocks_of_tx(storage, ledger, tx) :
                       topoheight_of(storage, ledger.tx_executed[tx])
                           <= topoheight_of(storage, h)
    /\ \A key \in Accounts :
           last_nonce(ledger, key)
               = Cardinality({tx \in DOMAIN ledger.tx_executed :
                                 transaction(tx).sender = key})
    /\ \A c \in Accounts \X Assets :
           last_balance(ledger, c)
               = sum([h \in Range(storage.topo) |->
                         IF h # GenesisHash /\ miner(h) = c[1] /\ c[2] = XELIS_ASSET
                         THEN get_block_reward(0) ELSE 0], Range(storage.topo))
                 + sum([tx \in DOMAIN ledger.tx_executed |->
                           IF transaction(tx).asset # c[2] THEN 0
                           ELSE (IF transaction(tx).to = c[1]
                                 THEN transaction(tx).amount ELSE 0)
                                - (IF transaction(tx).sender = c[1]
                                   THEN transaction(tx).amount ELSE 0)],
                       DOMAIN ledger.tx_executed)

\* The commit of a block moved the block before it up the order: both carry
\* a transaction, which is now marked executed in the new block.
C25_Witness ==
    /\ chain_call.op = "commit" /\ chain_call.count > 0
    /\ \E tx \in DOMAIN ledger.tx_executed :
           /\ Cardinality(blocks_of_tx(storage, ledger, tx)) = 2
           /\ ledger.tx_executed[tx] = storage.topo[Len(storage.topo) - 1]
           /\ tx \in Range(ledger.txs[storage.topo[Len(storage.topo)]])

\* C26: every VersionedBalance that is written is read back from its bytes
\* with the same final_balance, output_balance and previous_topoheight,
\* whichever of output_balance and previous_topoheight are present.
C26_ReadRestoresWrite ==
    (wire.type = "VersionedBalance" /\ wire.read) =>
        /\ wire.decoded.ok
        /\ wire.decoded.rest = << >>
        /\ wire.decoded.value = wire.value

\* The tag the frame of each packet variant carries.
tag_of(variant) ==
    CASE variant = "Handshake" -> 0
      [] variant = "Transaction" -> 1
      [] variant = "Block" -> 2
      [] variant = "RequestChain" -> 3
      [] variant = "Ping" -> 4
      [] variant = "RequestBlock" -> 3

\* The payload of a packet as the wire format lays it out: a Ping is the 32
\* bytes of block_top_hash and the 8 bytes of block_height, highest first; a
\* RequestBlock is the 8 bytes of the height.
payload_is(packet, payload) ==
    IF packet.variant = "Ping"
        THEN /\ Len(payload) = 40
             /\ SubSeq(payload, 1, 32) = packet.body.block_top_hash
             /\ \A i \in 1..8 : payload[32 + i] = limb(packet.body.block_height, 9 - i)
    ELSE IF packet.variant = "RequestBlock"
        THEN /\ Len(payload) = 8
             /\ \A i \in 1..8 : payload[i] = limb(packet.body, 9 - i)
    ELSE payload = packet.body

\* The number the first four bytes spell, highest byte first.
length_prefix(bytes) ==
    ((bytes[1] * 256 + bytes[2]) * 256 + bytes[3]) * 256 + bytes[4]

\* C27: the bytes of every outgoing packet are a 4-byte big-endian length L,
\* the 1-byte tag of the variant and the payload, with L the length of the
\* payload plus one; the tags are Handshake 0, Transaction 1, Block 2,
\* RequestChain 3, Ping 4.
C27_FrameLayout ==
    wire.type \in {"Packet", "RequestBlock"} =>
        /\ Len(wire.bytes) >= 5
        /\ length_prefix(wire.bytes) = Len(wire.bytes) - 4
        /\ wire.bytes[5] = tag_of(wire.value.variant)
        /\ payload_is(wire.value, SubSeq(wire.bytes, 6, Len(wire.bytes)))

C27_Witness ==
    /\ wire.type = "Packet"
    /\ wire.value.variant = "Ping"
    /\ Len(wire.value.body.block_height) > 1
    /\ Len(wire.bytes) = 45

same_unsigned(a, b) ==
    /\ a.nonce = b.nonce
    /\ a.data = b.data
    /\ a.sender = b.sender
    /\ a.fee = b.fee

\* C29: the hash of a transaction depends on its nonce, data, sender and fee
\* only: a step that signs the transaction, or signs it again, leaves the
\* hash as it was, and the signature it sets is one over that hash.
C29_HashIgnoresSignature ==
    [][(wire.type = "Transaction" /\ wire'.type = "Transaction"
            /\ same_unsigned(wire.value, wire'.value)) =>
          /\ Transaction_hash(wire'.value) = Transaction_hash(wire.value)
          /\ \A signature \in wire'.value.signature :
                 \/ signature \in wire.value.signature
                 \/ verify_signature(signature.signer, Transaction_hash(wire.value),
                                     signature)]_vars

C29_Witness ==
    /\ wire.type = "Transaction"
    /\ wire.value.data.type = "Normal"
    /\ wire.value.data.txs # << >>
    /\ \E signature \in wire.value.signature :
           /\ signature.signer # wire.value.sender
           /\ signature.data = Transaction_hash(wire.value)

\* The 5-bit values of the 32 bytes of a key: 52 values, the last one with
\* its lowest four bits zero.
is_address_data(data) ==
    /\ Len(data) = 52
    /\ \A i \in 1..52 : data[i] \in 0..31
    /\ data[52] % 16 = 0

\* C30: the key taken from the address of a key is that key, and an address
\* whose prefix is not the configured prefix is refused with an error.
C30_AddressRoundTrip ==
    /\ wire.type = "Address" =>
           /\ wire.bytes.hrp = "xel"
           /\ is_address_data(wire.bytes.data)
    /\ (wire.type = "Address" /\ wire.read) =>
           /\ wire.decoded.ok
           /\ wire.decoded.value = wire.value
    /\ (wire.type = "OtherAddress" /\ wire.read /\ wire.bytes.hrp # "xel") =>
           /\ ~wire.decoded.ok
           /\ wire.decoded.error = "ErrorOnBech32"

C30_Witness ==
    /\ wire.type = "Address" /\ wire.read
    /\ wire.decoded.ok
    /\ \E i \in 1..KEY_LENGTH : wire.decoded.value[i] # wire.decoded.value[1]

\* C31: a call of insert_block that returns an error (AlreadyInChain,
\* InvalidTips, a proof-of-work failure or a storage error) leaves the blocks
\* map and the order list of the validator exactly as they were.
C31_ErrorLeavesValidator ==
    [][(InsertStep /\ call'.res # "Ok") =>
          /\ validator'.blocks = validator.blocks
          /\ validator'.order = validator.order]_vars

C31_Witness ==
    /\ call.op = "insert_block"
    /\ call.res = "BlockNotFound"
    /\ call.io = 0
    /\ ~has_block(storage, call.hash)
    /\ Len(call.header.tips) = 2
    /\ validator = NewValidator

\* C34: the cleanup of a call that timed out removes no slot but the one the
\* call registered itself: every entry that another call stored is still in
\* the map, with its sender, after the cleanup.
C34_CleanupRemovesOwnSlot ==
    [][\A t \in Tasks :
        (task[t].pc = "timedout" /\ task'[t].pc # "timedout") =>
            \A k \in DOMAIN objects_requested :
                objects_requested[k] # task[t].id =>
                    /\ k \in DOMAIN objects_requested'
                    /\ objects_requested'[k] = objects_requested[k]
                    /\ chan'[objects_requested[k]] = chan[objects_requested[k]]]_vars
\* C35: remove_object_request never runs between the packet send and the
\* slot insertion of a call of request_blocking_object, both being done under
\* one hold of the lock: a response is never handled while a call has sent
\* its packet and not yet stored its sender, so none finds the slot of such a
\* request missing.
C35_SendAndInsertUnderOneLock ==
    [][(handler.pc = "idle" /\ handler'.pc = "removed") =>
          \A t \in Tasks :
              /\ task[t].pc # "insert"
              /\ (task[t].pc = "waiting"
                     /\ task[t].request = handler'.request
                     /\ task[t].request \in DOMAIN objects_requested
                     /\ objects_requested[task[t].request] = task[t].id)
                 => (handler'.res = "Ok" /\ handler'.sender = task[t].id)]_vars

C35_Witness ==
    /\ handler.pc = "removed"
    /\ handler.res = "Ok"
    /\ sent = 2
    /\ \E t \in Tasks :
           /\ task[t].pc = "waiting"
           /\ task[t].id = handler.sender
           /\ chan[task[t].id] = "open"
    /\ \E t \in Tasks : task[t].pc = "waiting" /\ task[t].id # handler.sender

\* C36: the (block_top_hash, block_height) pair a task reads from the peer
\* is never made of components of different announcements: it is the pair
\* that the handshake or one Ping carried.
C36_TipFromOneAnnouncement ==
    \/ peer_tip = tip_origin.block_top_hash
    \/ peer_tip = tip_origin.block_height

\* C37: every call of increment_fail_count raises fail_count by exactly 1,
\* so the counter never decreases and never wraps to 0.
C37_FailCountRaisedByOne ==
    [][fail_count' # fail_count => fail_count' = fail_count + 1]_vars

\* Two transactions whose nonce, data, sender and fee are equal, the params of
\* a SmartContract compared as HashMaps are: by content.
equal_fields(a, b) ==
    /\ a.nonce = b.nonce
    /\ a.sender = b.sender
    /\ a.fee = b.fee
    /\ a.data.type = b.data.type
    /\ IF a.data.type = "SmartContract"
       THEN /\ a.data.contract = b.data.contract
            /\ a.data.amount = b.data.amount
            /\ params_map(a.data.params) = params_map(b.data.params)
       ELSE a.data = b.data

\* C38: two transactions with equal nonce, data, sender and fee serialize to
\* the same bytes and have the same hash, SmartContract transactions with
\* two or more params included.
C38_EqualFieldsSameHash ==
    [][(wire.type = "Transaction" /\ wire'.type = "Transaction"
            /\ equal_fields(wire.value, wire'.value)) =>
          /\ TransactionData_to_bytes(wire'.value.data)
                 = TransactionData_to_bytes(wire.value.data)
          /\ Transaction_hash(wire'.value) = Transaction_hash(wire.value)]_vars

\* The messages a call sent to the client at `addr`.
WSResponses(r, addr) == {m \in r.sent : m.addr = addr}

\* C39: notify_clients sends the event to exactly the clients whose
\* subscriptions hold the event type when it is called, each message with the
\* id the client gave when it subscribed, and to no other client; subscribing
\* or unsubscribing a client that is not registered returns ClientNotFound
\* and changes no subscription.
C39_NotifySubscribers ==
    [][/\ rpc'.op = "notify_clients" =>
            /\ \A addr \in Addrs :
                  IF addr \in DOMAIN clients /\ rpc'.event \in DOMAIN clients[addr]
                  THEN \A m \in WSResponses(rpc', addr) :
                           m.id = clients[addr][rpc'.event] /\ m.event = rpc'.event
                  ELSE WSResponses(rpc', addr) = {}
            /\ \A addr \in DOMAIN clients :
                  rpc'.event \in DOMAIN clients[addr] => WSResponses(rpc', addr) # {}
            /\ clients' = clients
       /\ (rpc'.op = "subscribe_client_to" /\ rpc'.res = "Ok") =>
            /\ rpc'.addr \in DOMAIN clients
            /\ clients'[rpc'.addr][rpc'.event] = rpc'.id
       /\ (rpc'.op = "unsubscribe_client_from" /\ rpc'.res = "Ok") =>
            /\ rpc'.addr \in DOMAIN clients
            /\ rpc'.event \notin DOMAIN clients'[rpc'.addr]
       /\ (rpc'.op \in {"subscribe_client_to", "unsubscribe_client_from"}
              /\ rpc'.addr \notin DOMAIN clients) =>
            /\ rpc'.res = "ClientNotFound"
            /\ clients' = clients]_vars

C39_Witness ==
    /\ rpc.op = "notify_clients"
    /\ DOMAIN clients = Addrs
    /\ rpc.sent = {WSResponse(1, {1}, rpc.event)}
    /\ DOMAIN clients[2] = EventTypes \ {rpc.event}

====
